---------------------------- MODULE Spec2Model ----------------------------
(***************************************************************************)
(* A model of the ultraharness plugin: the cached configuration store      *)
(* (core/config.py) and the PreToolUse hook (hooks/pre_tool_use.py).       *)
(***************************************************************************)
EXTENDS Integers, Sequences, FiniteSets, TLC

(***************************************************************************)
(* Bounds of the model.                                                    *)
(***************************************************************************)
\* The clock that stamps modification times runs from 0 to MaxClock.
MaxClock == 1

(***************************************************************************)
(* Configuration values.  A Python value is a record: kind says what it is *)
(* (absent = the key is not in the dict), s is the rendering of a scalar,  *)
(* list or tuple, d the entries of a dict (one level: an inner value is a  *)
(* [kind, s] record and is never merged further).                          *)
(***************************************************************************)
DefaultKeys == {"strictness", "fic_enabled", "fic_config"}
Keys == DefaultKeys \cup {"user_key"}
InnerKeys == {"max_open_questions", "research_delegation_patterns", "user_option"}

IVal(k, x) == [kind |-> k, s |-> x]
IAbsent == IVal("absent", "")
NoInner == [i \in InnerKeys |-> IAbsent]

Absent == [kind |-> "absent", s |-> "", d |-> NoInner]
Scalar(x) == [kind |-> "scalar", s |-> x, d |-> NoInner]
PyTuple(x) == [kind |-> "tuple", s |-> x, d |-> NoInner]
PyList(x) == [kind |-> "list", s |-> x, d |-> NoInner]
PyDict(f) == [kind |-> "dict", s |-> "", d |-> f]

EmptyDict == [k \in Keys |-> Absent]
KeysOf(c) == {k \in Keys : c[k].kind # "absent"}
InnerKeysOf(v) == {i \in InnerKeys : v.d[i].kind # "absent"}

\* config.py:26-69, three representative settings: a string, a boolean and a
\* nested table that holds a scalar and a list.
DEFAULT_CONFIG ==
    [k \in Keys |->
        CASE k = "strictness" -> Scalar("standard")
          [] k = "fic_enabled" -> Scalar("true")
          [] k = "fic_config" ->
                PyDict([i \in InnerKeys |->
                    CASE i = "max_open_questions" -> IVal("scalar", "2")
                      [] i = "research_delegation_patterns" -> IVal("list", "how does")
                      [] OTHER -> IAbsent])
          [] OTHER -> Absent]

(***************************************************************************)
(* json.dump and json.load.  The text of a file is garbage (no JSON),      *)
(* nonobject (JSON, but an array, string or number) or an object.  A       *)
(* tuple is written as an array and so read back as a list.                *)
(***************************************************************************)
ToJsonInner(v) == IF v.kind = "tuple" THEN IVal("list", v.s) ELSE v
ToJson(v) ==
    CASE v.kind = "tuple" -> PyList(v.s)
      [] v.kind = "dict" -> PyDict([i \in InnerKeys |-> ToJsonInner(v.d[i])])
      [] OTHER -> v

JsonDump(config) == [kind |-> "object", obj |-> [k \in Keys |-> ToJson(config[k])]]
JsonLoad(text) ==
    [decoded |-> text.kind # "garbage",
     isDict |-> text.kind = "object",
     value |-> text.obj]

Garbage == [kind |-> "garbage", obj |-> EmptyDict]
NonObject == [kind |-> "nonobject", obj |-> EmptyDict]
NoFile == [kind |-> "absent", obj |-> EmptyDict, mtime |-> 0]
FileOf(text, t) == [kind |-> text.kind, obj |-> text.obj, mtime |-> t]


(***************************************************************************)
(* core/validation.py: the path sandbox.  A path string is a sequence of   *)
(* characters; NUL, LF and CR stand for the three control characters.  A   *)
(* resolved path is the sequence of its segments below the root.           *)
(***************************************************************************)
NUL == "NUL"
LF == "LF"
CR == "CR"
DANGEROUS_PATH_CHARS == {NUL, LF, CR}

Chars(path) == {path[i] : i \in 1..Len(path)}
IsSlash(c) == c \in {"/", "\\"}

\* PATH_TRAVERSAL_PATTERNS, lines 26-30: \.\.[\\/]  [\\/]\.\.  ^\.\.
PatternDotsSlash(path) ==
    \E i \in 1..(Len(path) - 2) :
        path[i] = "." /\ path[i + 1] = "." /\ IsSlash(path[i + 2])
PatternSlashDots(path) ==
    \E i \in 1..(Len(path) - 2) :
        IsSlash(path[i]) /\ path[i + 1] = "." /\ path[i + 2] = "."
\* Mutant: two dots at the start are not looked for.
PatternLeadingDots_Never(path) == FALSE
PatternLeadingDots(path) ==
    Len(path) >= 2 /\ path[1] = "." /\ path[2] = "."
\* Mutant: no pattern is looked for.
MatchesTraversal_Never(path) == FALSE

\* Lines 64-66: some pattern of PATH_TRAVERSAL_PATTERNS matches.
MatchesTraversal(path) ==
    PatternDotsSlash(path) \/ PatternSlashDots(path) \/ PatternLeadingDots(path)

\* os.path.isabs and Path.is_absolute on a POSIX system.
IsAbs(path) == Len(path) >= 1 /\ path[1] = "/"

\* The text between the separators of a path.
RECURSIVE SplitPath(_)
SplitPath(path) ==
    IF path = <<>> THEN << <<>> >>
    ELSE LET rest == SplitPath(Tail(path))
         IN  IF Head(path) = "/" THEN << <<>> >> \o rest
             ELSE << <<Head(path)>> \o Head(rest) >> \o Tail(rest)

\* Path(path).parts without the root: empty and "." segments are dropped.
IsSegment(seg) == seg # <<>> /\ seg # <<".">>
Parts(path) == SelectSeq(SplitPath(path), IsSegment)

\* The filesystem of the model: /w and /we are the working directories,
\* /w/l is a symbolic link to /e, and these paths exist.
Symlinks == { << << <<"w">>, <<"l">> >>, << <<"e">> >> >> }
ExistingPaths ==
    { <<>>, << <<"w">> >>, << <<"w", "e">> >>, << <<"w">>, <<"a">> >>,
      << <<"e">> >>, << <<"e">>, <<"a">> >> }
DirPath(w) == IF w = "w1" THEN <<"/", "w">> ELSE <<"/", "w", "e">>

FollowLink(segs) ==
    IF \E l \in Symlinks : l[1] = segs
    THEN (CHOOSE l \in Symlinks : l[1] = segs)[2]
    ELSE segs

\* Path.resolve(): the segments parts walked from the directory base, ".."
\* going up and a symbolic link replaced by its target.
RECURSIVE Walk(_, _)
Walk(base, parts) ==
    IF parts = <<>> THEN base
    ELSE IF Head(parts) = <<".", ".">>
    THEN Walk(IF base = <<>> THEN base ELSE SubSeq(base, 1, Len(base) - 1), Tail(parts))
    ELSE Walk(FollowLink(Append(base, Head(parts))), Tail(parts))

Resolve(path, cwd) == Walk(IF IsAbs(path) THEN <<>> ELSE cwd, Parts(path))

\* The characters of the segments a, with a separator before each.
RECURSIVE PathString(_)
PathString(a) == IF a = <<>> THEN <<>> ELSE <<"/">> \o Head(a) \o PathString(Tail(a))

\* Mutant: the common prefix of the two path strings, character by character
\* (os.path.commonprefix), given back as a when it is the whole of a.
CommonPath_CharPrefix(a, b) ==
    LET sa == PathString(a)
        sb == PathString(b)
    IN  IF Len(sa) <= Len(sb) /\ SubSeq(sb, 1, Len(sa)) = sa THEN a ELSE <<>>

\* os.path.commonpath of two absolute paths.
RECURSIVE CommonPath(_, _)
CommonPath(a, b) ==
    IF a = <<>> \/ b = <<>> \/ Head(a) # Head(b) THEN <<>>
    ELSE <<Head(a)>> \o CommonPath(Tail(a), Tail(b))

\* Mutant: only NUL counts as dangerous.
HasDangerousChar_OnlyNUL(path) == NUL \in Chars(path)

\* Lines 58-61: some character of DANGEROUS_PATH_CHARS is in the path.
HasDangerousChar(path) == Chars(path) \cap DANGEROUS_PATH_CHARS # {}

NoPath == [absolute |-> FALSE, parts |-> <<>>]
Invalid(reason) == [valid |-> FALSE, reason |-> reason, resolved |-> NoPath]
Valid(absolute, parts) ==
    [valid |-> TRUE, reason |-> "none",
     resolved |-> [absolute |-> absolute, parts |-> parts]]

\* validate_path(path, work_dir, must_exist, allow_absolute), lines 33-105;
\* work_dir is the path string of the boundary, empty when there is none, and
\* cwd the resolved current directory of the process.
validate_path(path, work_dir, must_exist, allow_absolute, cwd) ==
    LET work_path == Resolve(work_dir, cwd)
        resolved == IF work_dir # <<>>
                    THEN Valid(TRUE, Resolve(path, work_path))
                    ELSE IF IsAbs(path) THEN Valid(TRUE, Resolve(path, cwd))
                    ELSE Valid(FALSE, Parts(path))
        target == IF resolved.resolved.absolute THEN resolved.resolved.parts
                  ELSE Walk(cwd, resolved.resolved.parts)
    IN  IF path = <<>> THEN Invalid("empty")
        ELSE IF HasDangerousChar(path) THEN Invalid("dangerous-character")
        ELSE IF MatchesTraversal(path) THEN Invalid("traversal-pattern")
        ELSE IF ~allow_absolute /\ IsAbs(path) THEN Invalid("absolute-path-disallowed")
        ELSE IF work_dir # <<>> /\ CommonPath(work_path, resolved.resolved.parts) # work_path
        THEN Invalid("escapes-boundary")
        ELSE IF must_exist /\ target \notin ExistingPaths THEN Invalid("does-not-exist")
        ELSE resolved

\* result / p, lines 163-167: an absolute component replaces what was joined
\* before it.
JoinPath(result, p) == IF IsAbs(p) THEN Parts(p) ELSE result \o Parts(p)

RECURSIVE JoinAll(_, _)
JoinAll(result, paths) ==
    IF paths = <<>> THEN result ELSE JoinAll(JoinPath(result, Head(paths)), Tail(paths))

\* Lines 164-166: some component holds a NUL.
HasNul(paths) == \E i \in 1..Len(paths) : NUL \in Chars(paths[i])

\* safe_join(base, *paths), lines 147-183: the resolved path, or None.
NoJoin == [joined |-> FALSE, parts |-> <<>>]
safe_join(base, paths, cwd) ==
    LET base_path == Resolve(base, cwd)
        resolved == Walk(<<>>, JoinAll(base_path, paths))
    IN  IF HasNul(paths) THEN NoJoin
        ELSE IF CommonPath(base_path, resolved) # base_path THEN NoJoin
        ELSE [joined |-> TRUE, parts |-> resolved]

\* str.replace(char, '') for each char of chars.
Remove(str, chars) == LET Kept(c) == c \notin chars IN SelectSeq(str, Kept)

\* Each character of chars replaced by the character by.
Replace(str, chars, by) ==
    [i \in 1..Len(str) |-> IF str[i] \in chars THEN by ELSE str[i]]

\* re.sub(r'_+', '_', str), line 212.
RECURSIVE Collapse(_)
Collapse(str) ==
    IF Len(str) <= 1 THEN str
    ELSE IF str[1] = "_" /\ str[2] = "_" THEN Collapse(Tail(str))
    ELSE <<str[1]>> \o Collapse(Tail(str))

\* str.strip(chars), line 215.
RECURSIVE LStrip(_, _)
LStrip(str, chars) ==
    IF str # <<>> /\ Head(str) \in chars THEN LStrip(Tail(str), chars) ELSE str
RECURSIVE RStrip(_, _)
RStrip(str, chars) ==
    IF str # <<>> /\ str[Len(str)] \in chars
    THEN RStrip(SubSeq(str, 1, Len(str) - 1), chars)
    ELSE str
Strip(str, chars) == RStrip(LStrip(str, chars), chars)

\* Lines 218-228: a name longer than max_length is cut; when it has a dot,
\* the text after the last dot is kept if some of the name fits before it.
Truncate(sanitized, max_length) ==
    IF Len(sanitized) <= max_length THEN sanitized
    ELSE IF "." \in Chars(sanitized)
    THEN LET dot == CHOOSE i \in 1..Len(sanitized) :
                        /\ sanitized[i] = "."
                        /\ \A j \in (i + 1)..Len(sanitized) : sanitized[j] # "."
             name == SubSeq(sanitized, 1, dot - 1)
             ext == SubSeq(sanitized, dot + 1, Len(sanitized))
             max_name == max_length - Len(ext) - 1
         IN  IF max_name > 0 THEN SubSeq(name, 1, max_name) \o <<".">> \o ext
             ELSE SubSeq(sanitized, 1, max_length)
    ELSE SubSeq(sanitized, 1, max_length)

TAB == "TAB"
UNNAMED == <<"u", "n", "n", "a", "m", "e", "d">>
IllegalChars == {"<", ">", ":", "\"", "|", "?", "*"}

\* Lines 200-215: the characters removed, replaced, collapsed and stripped.
Cleaned(filename) ==
    Strip(Collapse(Replace(Replace(Remove(filename, DANGEROUS_PATH_CHARS),
                                   {"/", "\\"}, "_"),
                           IllegalChars, "_")),
          {".", " ", TAB})

\* Lines 230-234: the placeholder for a name that came out empty.
OrUnnamed(sanitized) == IF sanitized = <<>> THEN UNNAMED ELSE sanitized

\* sanitize_filename(filename, max_length), lines 186-234.
sanitize_filename(filename, max_length) ==
    IF filename = <<>> THEN UNNAMED
    ELSE OrUnnamed(Truncate(Cleaned(filename), max_length))

\* A call of sanitize_filename and what it returned.
Naming(called, filename, max_length, result) ==
    [called |-> called, filename |-> filename, max_length |-> max_length,
     result |-> result]
NoNaming == Naming(FALSE, <<>>, 0, <<>>)

\* Regular files of the model's filesystem: the other existing paths are
\* directories.
RegularFiles == { << <<"w">>, <<"a">> >>, << <<"e">>, <<"a">> >> }

\* validate_work_dir(work_dir), lines 108-144.
validate_work_dir(work_dir, cwd) ==
    /\ work_dir # <<>>
    /\ ~HasDangerousChar(work_dir)
    /\ IsAbs(work_dir)
    /\ Resolve(work_dir, cwd) \in ExistingPaths
    /\ Resolve(work_dir, cwd) \notin RegularFiles

\* A call of the path sandbox: validate_path with its arguments, or safe_join
\* with base as work_dir and its components as paths, and what it returned.
SandboxCall(op, path, paths, work_dir, must_exist, allow_absolute, result) ==
    [op |-> op, path |-> path, paths |-> paths, work_dir |-> work_dir,
     must_exist |-> must_exist, allow_absolute |-> allow_absolute, result |-> result]
NoSandboxCall == SandboxCall("none", <<>>, <<>>, <<>>, FALSE, FALSE, Invalid("none"))

(***************************************************************************)
(* The state.                                                              *)
(***************************************************************************)
WorkDirs == {"w1", "w2"}
None == "None"
\* os.environ.get('CLAUDE_WORKING_DIRECTORY', os.getcwd())
CWD == "w1"

VARIABLES
    now,            \* the filesystem's clock: a write stamps the file with it
    file,           \* file[w]: <w>/.claude/claude-harness.json
    config_cache,   \* _config_cache: cache key -> configuration
    config_mtime,   \* _config_mtime: cache key -> recorded modification time
    ret,            \* the last call or file event and what it returned
    prev,           \* when ret is a load: the call or file event before it
    marker,         \* <CWD>/.claude/.claude-harness-initialized exists
    phase,          \* the workflow phase the phase tracker reports
    FIC_GATES_AVAILABLE,    \* core.verification_gates could be imported
    hook,           \* the last run of the PreToolUse hook
    sandbox,        \* the last call of the path sandbox and its result
    loader,         \* loader[t]: where thread t is in load_config, its locals
    entries,        \* <<mtime, configuration>> pairs: those that loads have cached,
                    \* or those of the versions the config file has had
    heap,           \* the objects in memory: DEFAULT_CONFIG and a returned config
    progress,       \* <work_dir>/claude-progress.txt: the entries it holds
    worker,         \* worker[t]: where thread t is in a call of progress.py
    written,        \* every entry written to the progress file, in order
    named           \* the last call of sanitize_filename and its result

cfgVars == <<now, file, config_cache, config_mtime, ret, prev>>
hookVars == <<marker, phase, FIC_GATES_AVAILABLE, hook>>
raceVars == <<loader, entries>>
progVars == <<progress, worker, written, named>>
auxVars == <<sandbox, loader, entries, heap, progress, worker, written, named>>
vars == <<now, file, config_cache, config_mtime, ret, prev,
          marker, phase, FIC_GATES_AVAILABLE, hook, sandbox, loader, entries, heap,
          progress, worker, written, named>>

EmptyCache == [w \in {} |-> EmptyDict]
EmptyMtimes == [w \in {} |-> 0]
Put(f, k, v) == [x \in DOMAIN f \cup {k} |-> IF x = k THEN v ELSE f[x]]
Pop(f, k) == [x \in DOMAIN f \ {k} |-> f[x]]

(***************************************************************************)
(* core/config.py                                                          *)
(***************************************************************************)
get_working_directory == CWD

\* The cache key is str(Path(work_dir) / '.claude' / CONFIG_FILE): one per
\* working directory, named here by the directory.
get_config_path(work_dir) ==
    IF work_dir = None THEN get_working_directory ELSE work_dir

\* Mutant: a value of the file replaces the default whole, tables too.
MergeUserConfig_Shallow(config, user_config) ==
    [key \in Keys |->
        IF user_config[key].kind = "absent" THEN config[key] ELSE user_config[key]]

\* Mutant: a default is kept, the file only adds the keys that have none.
MergeUserConfig_DefaultsWin(config, user_config) ==
    [key \in Keys |->
        IF config[key].kind = "absent" THEN user_config[key] ELSE config[key]]

\* Lines 129-133: a dict value over a dict default is updated key by key, any
\* other value replaces the default.
MergeUserConfig(config, user_config) ==
    [key \in Keys |->
        LET value == user_config[key] IN
        IF value.kind = "absent" THEN config[key]
        ELSE IF value.kind = "dict" /\ config[key].kind = "dict"
        THEN PyDict([i \in InnerKeys |->
                IF value.d[i].kind # "absent" THEN value.d[i] ELSE config[key].d[i]])
        ELSE value]

\* Which system call of load_config fails, if any: the stat of the cache
\* check (line 107), the open (line 126) or the stat that records the
\* modification time (line 136).
LoadFaults == {"none", "stat_check", "open", "stat_record"}

\* Lines 117-138: the fresh configuration built from the defaults and the
\* file f.  raised: an exception no handler of load_config catches
\* (user_config.items() of a JSON value that is no object).  stamped: the
\* modification time was recorded.  read: the content of the file was read.
BuildFreshConfig(f, io) ==
    LET user == JsonLoad(f)
        defaults(r) == [raised |-> FALSE, config |-> DEFAULT_CONFIG,
                        stamped |-> FALSE, read |-> r]
    IN  IF f.kind = "absent" THEN defaults(FALSE)
        ELSE IF io = "open" THEN defaults(FALSE)
        ELSE IF ~user.decoded THEN defaults(TRUE)
        ELSE IF ~user.isDict
        THEN [raised |-> TRUE, config |-> EmptyDict, stamped |-> FALSE, read |-> TRUE]
        ELSE [raised |-> FALSE,
              config |-> MergeUserConfig(DEFAULT_CONFIG, user.value),
              stamped |-> io # "stat_record", read |-> TRUE]

\* Mutant: a cached configuration is returned whatever the file's
\* modification time is.
CacheHit_IgnoresMtime(cache, mtimes, f, cache_key, force_reload, io) ==
    ~force_reload /\ cache_key \in DOMAIN cache

\* Lines 102-115: whether the cached configuration is returned.
CacheHit(cache, mtimes, f, cache_key, force_reload, io) ==
    /\ ~force_reload
    /\ cache_key \in DOMAIN cache
    /\ \/ io = "stat_check"
       \/ f.kind = "absent"
       \/ (cache_key \in DOMAIN mtimes /\ f.mtime = mtimes[cache_key])

\* Whether load_config makes the system call that io names: a call that is
\* not made cannot fail.
LoadFaultPossible(cache, mtimes, f, cache_key, force_reload, io) ==
    LET checks == ~force_reload /\ cache_key \in DOMAIN cache
        builds == ~CacheHit(cache, mtimes, f, cache_key, force_reload, "none")
    IN  CASE io = "stat_check" -> checks
          [] io = "open" -> builds /\ f.kind # "absent"
          [] io = "stat_record" -> builds /\ f.kind = "object"
          [] OTHER -> TRUE

\* load_config(work_dir, force_reload) on the cache (cache, mtimes) with f
\* the file at the config path: what it returns and the cache it leaves.
load_config(cache, mtimes, f, work_dir, force_reload, io) ==
    LET cache_key == get_config_path(work_dir)
        fresh == BuildFreshConfig(f, io)
    IN  IF CacheHit(cache, mtimes, f, cache_key, force_reload, io)
        THEN [raised |-> FALSE, config |-> cache[cache_key], read |-> FALSE,
              cache |-> cache, mtimes |-> mtimes]
        ELSE IF fresh.raised
        THEN [raised |-> TRUE, config |-> EmptyDict, read |-> fresh.read,
              cache |-> cache, mtimes |-> mtimes]
        ELSE [raised |-> FALSE, config |-> fresh.config, read |-> fresh.read,
              cache |-> Put(cache, cache_key, fresh.config),
              mtimes |-> IF fresh.stamped THEN Put(mtimes, cache_key, f.mtime)
                         ELSE mtimes]

\* clear_config_cache(work_dir), lines 146-157.
clear_config_cache(cache, mtimes, work_dir) ==
    IF work_dir = None
    THEN [cache |-> EmptyCache, mtimes |-> EmptyMtimes]
    ELSE [cache |-> Pop(cache, get_config_path(work_dir)),
          mtimes |-> Pop(mtimes, get_config_path(work_dir))]

\* Which step of save_config fails, if any: creating the directory or opening
\* the file (the file is untouched), or writing it (the file, already
\* truncated by open(..., 'w'), holds an incomplete text).
SaveFaults == {"none", "open", "write"}

\* Mutant: the file is written and the cache left as it is.
save_config_KeepsCache(cache, mtimes, f, config, work_dir, io, t) ==
    CASE io = "open" ->
            [ok |-> FALSE, file |-> f, cache |-> cache, mtimes |-> mtimes]
      [] io = "write" ->
            [ok |-> FALSE, file |-> FileOf(Garbage, t), cache |-> cache, mtimes |-> mtimes]
      [] OTHER ->
            [ok |-> TRUE, file |-> FileOf(JsonDump(config), t),
             cache |-> cache, mtimes |-> mtimes]

\* save_config(config, work_dir), lines 160-173, at time t, f the file at
\* the config path.
save_config(cache, mtimes, f, config, work_dir, io, t) ==
    LET cleared == clear_config_cache(cache, mtimes, work_dir)
    IN  CASE io = "open" ->
                [ok |-> FALSE, file |-> f, cache |-> cache, mtimes |-> mtimes]
          [] io = "write" ->
                [ok |-> FALSE, file |-> FileOf(Garbage, t),
                 cache |-> cache, mtimes |-> mtimes]
          [] OTHER ->
                [ok |-> TRUE, file |-> FileOf(JsonDump(config), t),
                 cache |-> cleared.cache, mtimes |-> cleared.mtimes]

\* set_setting(key, value, work_dir), lines 202-206.  The configuration that
\* load_config returns is the object the cache holds, so the assignment
\* config[key] = value changes the cached configuration too.
set_setting(cache, mtimes, f, key, value, work_dir, loadIo, saveIo, t) ==
    LET cache_key == get_config_path(work_dir)
        loaded == load_config(cache, mtimes, f, work_dir, FALSE, loadIo)
        config == [loaded.config EXCEPT ![key] = value]
        saved == save_config(Put(loaded.cache, cache_key, config), loaded.mtimes,
                             f, config, work_dir, saveIo, t)
    IN  IF loaded.raised
        THEN [raised |-> TRUE, ok |-> FALSE, config |-> EmptyDict, read |-> loaded.read,
              file |-> f, cache |-> loaded.cache, mtimes |-> loaded.mtimes]
        ELSE [raised |-> FALSE, ok |-> saved.ok, config |-> config, read |-> loaded.read,
              file |-> saved.file, cache |-> saved.cache, mtimes |-> saved.mtimes]

\* get_setting(key, work_dir), lines 196-199, of a load that did not raise.
get_setting(loaded, key) == loaded.config[key]

\* get_strictness and is_relaxed_mode, lines 176-188, of a loaded config.
get_strictness(config) ==
    IF config["strictness"].kind = "absent" THEN Scalar("standard")
    ELSE config["strictness"]
is_relaxed_mode(config) == get_strictness(config) = Scalar("relaxed")

\* Mutant: the marker is not looked at.
is_harness_initialized_Always(marker_exists) == TRUE

\* is_harness_initialized(work_dir), lines 209-214: the marker file exists.
is_harness_initialized(marker_exists) == marker_exists

(***************************************************************************)
(* The gate engine (core/verification_gates.py, which hooks/shared_imports *)
(* imports): check_gate and format_gate_message follow the decision policy *)
(* of the design, section 4.3.                                             *)
(***************************************************************************)
Phases == <<"uninitialized", "researching", "planning", "implementing">>

\* Step 3: a file modification is permitted once the plan is validated, that
\* is in the implementing phase.
PhasePermits(gate, ph) == ph = "implementing"

\* A Python value taken as a condition.
Truthy(v) ==
    CASE v.kind = "scalar" -> v.s \notin {"false", "0", "", "null"}
      [] v.kind = "dict" -> InnerKeysOf(v) # {}
      [] OTHER -> v.s # ""

Verdict(action, reason, validated, phase_checked) ==
    [action |-> action, reason |-> reason,
     validated |-> validated, phase_checked |-> phase_checked]

\* check_gate(gate, work_dir, file_path=...): the verdict, its reason, and
\* whether the path was validated and the phase consulted.
check_gate(gate, work_dir, file_path, config, initialized, ph) ==
    LET mode == get_strictness(config)
        checked == validate_path(file_path, DirPath(work_dir), FALSE, TRUE, <<>>)
    IN  IF \/ (config["fic_enabled"].kind # "absent" /\ ~Truthy(config["fic_enabled"]))
           \/ ~initialized
           \/ mode = Scalar("relaxed")
        THEN Verdict("allow", "", FALSE, FALSE)
        ELSE IF gate \notin {"allow_edit", "allow_write"}
        THEN Verdict("allow", "", FALSE, FALSE)
        ELSE IF ~checked.valid
        THEN Verdict("block", checked.reason, TRUE, FALSE)
        ELSE IF PhasePermits(gate, ph)
        THEN Verdict("allow", "", TRUE, TRUE)
        ELSE IF mode = Scalar("strict")
        THEN Verdict("block", "plan-missing", TRUE, TRUE)
        ELSE Verdict("warn", "plan-missing", TRUE, TRUE)

\* format_gate_message(result): the rationale of a warn or block verdict.
format_gate_message(result) == result.reason

(***************************************************************************)
(* hooks/pre_tool_use.py                                                   *)
(***************************************************************************)
NoVerdict == Verdict("none", "", FALSE, FALSE)

\* Mutant: fic_enabled is not looked at.
FicEnabled_Always(config) == TRUE

\* Line 74: config.get('fic_enabled', True).
FicEnabled(config) ==
    config["fic_enabled"].kind = "absent" \/ Truthy(config["fic_enabled"])

\* Mutant: a warning of the gate is dropped.
FicAction_DropsWarn(result_action) ==
    IF result_action = "block" THEN "block" ELSE "allow"

\* Mutant: a warning of the gate blocks.
FicAction_WarnBlocks(result_action) ==
    IF result_action \in {"block", "warn"} THEN "block" ELSE "allow"

\* Mutant: a block of the gate only warns.
FicAction_BlockWarns(result_action) ==
    IF result_action \in {"block", "warn"} THEN "warn" ELSE "allow"

\* Lines 92-97: the action check_fic_gates returns for a gate result.
FicAction(result_action) ==
    CASE result_action = "block" -> "block"
      [] result_action = "warn" -> "warn"
      [] OTHER -> "allow"

\* The faults of a run: the call of main or check_fic_gates that raises an
\* exception of its own ("none": no such fault) - reading standard input
\* (line 106), os.getcwd (113), is_harness_initialized (116), load_config
\* (121), is_relaxed_mode (124), check_gate (90), format_gate_message (93, 95).
HookFaults == {"none", "stdin", "getcwd", "marker", "load", "mode", "gate", "format"}

\* Mutant: every tool is taken for a file modification.
GuardedTool_All(tool_name) == TRUE

\* Line 78: only Edit and Write are checked against a gate.
GuardedTool(tool_name) == tool_name \in {"Edit", "Write"}

\* What check_fic_gates gives back: the action and message it returns, or
\* the exception that leaves it (raised, with the fault that raised it).
FicOut(action, message, calls, verdict) ==
    [raised |-> FALSE, action |-> action, message |-> message,
     calls |-> calls, verdict |-> verdict, fault |-> "none"]
FicRaise(calls, verdict, fault) ==
    [raised |-> TRUE, action |-> "none", message |-> "",
     calls |-> calls, verdict |-> verdict, fault |-> fault]

\* Lines 92-97: the gate's result is mapped to the action and the message.
FicResult(result, fault) ==
    IF FicAction(result.action) = "allow" THEN FicOut("allow", "", 1, result)
    ELSE IF fault = "format" THEN FicRaise(1, result, fault)
    ELSE FicOut(FicAction(result.action), format_gate_message(result), 1, result)

\* check_fic_gates(tool_name, tool_input, work_dir, config), lines 63-97.
\* raised: an exception left the call (tool_input.get on a tool_input that is
\* no dict, or the fault).  calls: the number of check_gate calls.
check_fic_gates(tool_name, tool_input, work_dir, config, ph, gates_available, fault) ==
    IF ~gates_available THEN FicOut("allow", "", 0, NoVerdict)
    ELSE IF ~FicEnabled(config) THEN FicOut("allow", "", 0, NoVerdict)
    ELSE IF ~GuardedTool(tool_name) THEN FicOut("allow", "", 0, NoVerdict)
    ELSE IF ~tool_input.isDict THEN FicRaise(0, NoVerdict, "none")
    ELSE IF fault = "gate" THEN FicRaise(1, NoVerdict, fault)
    ELSE FicResult(check_gate(IF tool_name = "Edit" THEN "allow_edit" ELSE "allow_write",
                              work_dir, tool_input.file_path, config, TRUE, ph),
                   fault)

\* The response object printed: the permissionDecision of hookSpecificOutput
\* ("none": no hookSpecificOutput) and the lines of systemMessage (none: no
\* systemMessage).
Response(decision, lines) == [permissionDecision |-> decision, systemMessage |-> lines]
BlockedNote == "[FIC Gate: Operation blocked. Complete prior phase first.]"
HookError == "[Harness] PreToolUse hook error"

\* Mutant: a block is reported without the deny decision.
BlockResponse_NoDeny(message) == Response("none", <<message, BlockedNote>>)

\* Lines 136-144: the response to a block.
BlockResponse(message) == Response("deny", <<message, BlockedNote>>)

\* A run of the hook: ran (FALSE: no run yet), what it wrote to standard
\* output, its exit status, the load_config calls it made, what
\* check_fic_gates returned, whether an exception left the try block, and
\* the fault that the run came to.
Run(stdin, stdout, loads, fic) ==
    [ran |-> TRUE, stdin |-> stdin, stdout |-> stdout, exit |-> 0, loads |-> loads,
     action |-> fic.action, gate_calls |-> fic.calls, verdict |-> fic.verdict,
     raised |-> FALSE, fault |-> "none"]
NoFic == FicOut("none", "", 0, NoVerdict)

EmptyInput == [isDict |-> TRUE, file_path |-> <<>>]
Stdin(kind, tool_name, tool_input) ==
    [kind |-> kind, tool_name |-> tool_name, tool_input |-> tool_input]

\* How control leaves the try block of main: sys.exit(0) raises SystemExit,
\* a failing call raises an Exception, or the block runs to its end.  fault
\* is the fault the run came to ("none": it came to none).
Leave(how, stdout, loads, fic, fault) ==
    [how |-> how, stdout |-> stdout, loads |-> loads, fic |-> fic, fault |-> fault]

\* Lines 136-153: the response to what check_fic_gates returned.
Respond(fic) ==
    IF fic.raised THEN Leave("Exception", <<>>, 2, fic, fic.fault)
    ELSE IF fic.action = "block"
    THEN Leave("SystemExit", <<BlockResponse(fic.message)>>, 2, fic, "none")
    ELSE IF fic.action = "warn" /\ fic.message # ""
    THEN Leave("return", <<Response("none", <<fic.message>>)>>, 2, fic, "none")
    ELSE Leave("return", <<Response("none", <<>>)>>, 2, fic, "none")

\* Lines 124-134, with again what the load_config call of is_relaxed_mode
\* returned.
AfterMode(tool_name, tool_input, work_dir, config, again, ph, gates_available, fault) ==
    IF fault = "mode" THEN Leave("Exception", <<>>, 2, NoFic, fault)
    ELSE IF again.raised THEN Leave("Exception", <<>>, 2, NoFic, "none")
    ELSE IF is_relaxed_mode(again.config)
    THEN Leave("SystemExit", <<Response("none", <<>>)>>, 2, NoFic, "none")
    ELSE Respond(check_fic_gates(tool_name, tool_input, work_dir, config.config,
                                 ph, gates_available, fault))

\* Lines 121-134, with config what load_config(work_dir) returned to a
\* process that has an empty cache.
AfterLoad(tool_name, tool_input, work_dir, f, config, ph, gates_available, fault) ==
    IF fault = "load" THEN Leave("Exception", <<>>, 1, NoFic, fault)
    ELSE IF config.raised THEN Leave("Exception", <<>>, 1, NoFic, "none")
    ELSE AfterMode(tool_name, tool_input, work_dir, config,
                   load_config(config.cache, config.mtimes, f, work_dir, FALSE, "none"),
                   ph, gates_available, fault)

\* Lines 102-153, the try block of main: stdin is the text on standard input
\* (empty, garbage: no JSON, nonobject: JSON but no object, or an object with
\* tool_name and tool_input), f the config file of the working directory.
Body(stdin, f, initialized, ph, gates_available, fault) ==
    IF fault = "stdin" THEN Leave("Exception", <<>>, 0, NoFic, fault)
    ELSE IF stdin.kind = "nonobject" THEN Leave("Exception", <<>>, 0, NoFic, "none")
    ELSE IF fault \in {"getcwd", "marker"} THEN Leave("Exception", <<>>, 0, NoFic, fault)
    ELSE IF ~is_harness_initialized(initialized)
    THEN Leave("SystemExit", <<Response("none", <<>>)>>, 0, NoFic, "none")
    ELSE AfterLoad(IF stdin.kind = "object" THEN stdin.tool_name ELSE "",
                   IF stdin.kind = "object" THEN stdin.tool_input ELSE EmptyInput,
                   CWD, f,
                   load_config(EmptyCache, EmptyMtimes, f, CWD, FALSE, "none"),
                   ph, gates_available, fault)

\* Mutant: the handler also catches SystemExit (a bare except).
Caught_BaseException(how) == how \in {"Exception", "SystemExit"}

\* Mutant: the handler catches nothing.
Caught_Nothing(how) == FALSE

\* Line 155: except Exception.
Caught(how) == how = "Exception"

\* Lines 155-161: the handler prints the error response after what the try
\* block printed; the finally clause ends the process with status 0.
Finish(stdin, body) ==
    [Run(stdin,
         IF Caught(body.how)
         THEN Append(body.stdout, Response("none", <<HookError>>))
         ELSE body.stdout,
         body.loads, body.fic)
        EXCEPT !.raised = (body.how = "Exception"), !.fault = body.fault]

\* main(), lines 100-161.
main(stdin, f, initialized, ph, gates_available, fault) ==
    Finish(stdin, Body(stdin, f, initialized, ph, gates_available, fault))

NoRun == [Run(Stdin("empty", "", EmptyInput), <<>>, 0, NoFic) EXCEPT !.ran = FALSE]

(***************************************************************************)
(* The inputs of the model: the texts a config file is given, the          *)
(* configurations a caller saves and the settings it sets.                 *)
(***************************************************************************)
Obj(c) == [kind |-> "object", obj |-> c]
With(c, k, v) == [c EXCEPT ![k] = v]
Inner(i, v) == [NoInner EXCEPT ![i] = v]

\* {"strictness": "strict"}
StrictOnly == With(EmptyDict, "strictness", Scalar("strict"))
\* {"strictness": "relaxed", "fic_enabled": false}
RelaxedOff == With(With(EmptyDict, "strictness", Scalar("relaxed")),
                   "fic_enabled", Scalar("false"))
\* {"fic_config": {"max_open_questions": 5, "user_option": "x"}, "user_key": "u"}
PartialTable ==
    With(With(EmptyDict, "fic_config",
              PyDict([Inner("max_open_questions", IVal("scalar", "5"))
                        EXCEPT !["user_option"] = IVal("scalar", "x")])),
         "user_key", Scalar("u"))
\* {"fic_config": "off", "strictness": {"user_option": "x"}}
Retyped ==
    With(With(EmptyDict, "fic_config", Scalar("off")),
         "strictness", PyDict(Inner("user_option", IVal("scalar", "x"))))

FileTexts == {Garbage, NonObject, Obj(StrictOnly), Obj(PartialTable), Obj(Retyped)}

\* {"fic_config": {"research_delegation_patterns": ("a", "b")},
\*  "strictness": "strict", "user_key": ("a", "b")}
TupleTable ==
    With(With(StrictOnly, "user_key", PyTuple("a, b")), "fic_config",
         PyDict(Inner("research_delegation_patterns", IVal("tuple", "a, b"))))

\* Configurations a caller passes to save_config, besides the one it loaded.
SaveArgs == {PartialTable, TupleTable}

Settings == {<<"strictness", Scalar("relaxed")>>}

(***************************************************************************)
(* load_config statement by statement, for threads that share              *)
(* _config_cache and _config_mtime.  The pc of a thread is the line it     *)
(* executes next; its locals are force_reload, current_mtime, config and   *)
(* the modification time it recorded at line 136.                          *)
(***************************************************************************)
Threads == {"t1", "t2"}
NoTime == -1

\* What a call returned: kind "hit" (lines 109, 112, with the mtime compared
\* at line 108, NoTime at line 112) or "fresh" (line 143).
Returned(kind, mtime, config) == [kind |-> kind, mtime |-> mtime, config |-> config]
NoReturn == Returned("none", NoTime, EmptyDict)

Locals(pc, force_reload, current_mtime, config, recorded, out) ==
    [pc |-> pc, force_reload |-> force_reload, current_mtime |-> current_mtime,
     config |-> config, recorded |-> recorded, out |-> out]
Idle(out) == Locals("idle", FALSE, NoTime, EmptyDict, NoTime, out)
NoThreads == [t \in Threads |-> Idle(NoReturn)]

(***************************************************************************)
(* core/progress.py.  The progress file is a sequence of entries; an entry  *)
(* is a message, with or without a timestamp before it.  A working         *)
(* directory argument is given or left to the default (the current         *)
(* directory).                                                             *)
(***************************************************************************)
\* claude-progress.txt, here named p.
PROGRESS_FILE == <<"p">>

Dir(path) == [given |-> TRUE, path |-> path]
NoDir == [given |-> FALSE, path |-> <<>>]

\* get_progress_path(work_dir), lines 30-48: the path of the progress file,
\* or None (joined FALSE) for a working directory that is not valid.
get_progress_path(work_dir, cwd) ==
    LET dir == IF work_dir.given THEN work_dir.path ELSE PathString(cwd)
    IN  IF ~validate_work_dir(dir, cwd) THEN NoJoin
        ELSE safe_join(dir, <<PROGRESS_FILE>>, cwd)

Entry(stamped, message) == [stamped |-> stamped, message |-> message]
\* Lines 134-154: the header and the INITIALIZED entry, taken as one entry.
Header == Entry(TRUE, "INITIALIZED")

ProgressFile(entries_) == [exists |-> TRUE, entries |-> entries_]
NoProgress == [exists |-> FALSE, entries |-> <<>>]

\* What a call of progress.py gave its caller: kind returned or raised (an
\* exception left the call); ok: append returned the entry (not None),
\* initialize returned True; text: what read returned, the entry of an append.
ProgressOut(kind, op, ok, text) == [kind |-> kind, op |-> op, ok |-> ok, text |-> text]
NoProgressOut == ProgressOut("none", "none", FALSE, <<>>)

\* A thread in progress.py: idle, or at line 131 of initialize_progress_file.
Working(pc, out) == [pc |-> pc, out |-> out]
NoWorkers == [t \in Threads |-> Working("idle", NoProgressOut)]

\* Which system call of a progress operation fails, if any.
ProgressFaults == {"none", "io"}

\* read_progress(work_dir), lines 51-58.
read_progress(f, work_dir, cwd, io) ==
    IF ~get_progress_path(work_dir, cwd).joined THEN ProgressOut("returned", "read", TRUE, <<>>)
    ELSE IF ~f.exists THEN ProgressOut("returned", "read", TRUE, <<>>)
    ELSE IF io = "io" THEN ProgressOut("raised", "read", FALSE, <<>>)
    ELSE ProgressOut("returned", "read", TRUE, f.entries)

\* append_progress(message, work_dir, include_timestamp), lines 61-80: what
\* it gives its caller and the file it leaves.
append_progress(f, message, work_dir, include_timestamp, cwd, io) ==
    LET entry == Entry(include_timestamp, message)
    IN  IF ~get_progress_path(work_dir, cwd).joined
        THEN [out |-> ProgressOut("returned", "append", FALSE, <<>>), file |-> f, wrote |-> FALSE]
        ELSE IF io = "io"
        THEN [out |-> ProgressOut("raised", "append", FALSE, <<>>), file |-> f, wrote |-> FALSE]
        ELSE [out |-> ProgressOut("returned", "append", TRUE, <<entry>>),
              file |-> ProgressFile(Append(f.entries, entry)), wrote |-> TRUE]

(***************************************************************************)
(* The objects in memory.  A dict or list is an object with an identity    *)
(* and is reached through references; a string, number or boolean is a     *)
(* value.  An entry of a dict is a value or a reference.                   *)
(***************************************************************************)
Ref(id) == [ref |-> id, val |-> IAbsent]
Val(v) == [ref |-> <<>>, val |-> v]
DictObject(items) == [kind |-> "dict", items |-> items]
ListObject(items) == [kind |-> "list", items |-> items]

\* The identities: DEFAULT_CONFIG, its nested tables and their lists, and the
\* dict that load_config builds with its nested tables.
DefaultId == <<"DEFAULT_CONFIG">>
ConfigId == <<"config">>
NestedKeys == {k \in Keys : DEFAULT_CONFIG[k].kind = "dict"}
ListKeys(k) == {i \in InnerKeys : DEFAULT_CONFIG[k].d[i].kind = "list"}
DefaultIds ==
    {DefaultId} \cup {<<"DEFAULT_CONFIG", k>> : k \in NestedKeys}
        \cup UNION {{<<"DEFAULT_CONFIG", k, i>> : i \in ListKeys(k)} : k \in NestedKeys}
ConfigIds == {ConfigId} \cup {<<"config", k>> : k \in NestedKeys}

\* config.py:26-69 as the module creates it.
HeapOfDefaults ==
    [id \in DefaultIds |->
        CASE Len(id) = 1 ->
                DictObject([k \in Keys |->
                    IF k \in NestedKeys THEN Ref(<<"DEFAULT_CONFIG", k>>)
                    ELSE Val(IVal(DEFAULT_CONFIG[k].kind, DEFAULT_CONFIG[k].s))])
          [] Len(id) = 2 ->
                DictObject([i \in InnerKeys |->
                    IF i \in ListKeys(id[2]) THEN Ref(<<"DEFAULT_CONFIG", id[2], i>>)
                    ELSE Val(DEFAULT_CONFIG[id[2]].d[i])])
          [] OTHER -> ListObject(<<DEFAULT_CONFIG[id[2]].d[id[3]].s>>)]

\* dict.copy(): a new dict with the same entries - the same values and the
\* same references.
DictCopy(h, src, dst) == Put(h, dst, h[src])

\* Lines 118-122: config = DEFAULT_CONFIG.copy(), then each nested table of
\* config is replaced by a copy of the default's nested table.
RECURSIVE CopyNested(_, _)
CopyNested(h, ks) ==
    IF ks = {} THEN h
    ELSE LET k == CHOOSE x \in ks : TRUE
             copied == DictCopy(h, h[DefaultId].items[k].ref, <<"config", k>>)
             linked == [copied EXCEPT ![ConfigId].items[k] = Ref(<<"config", k>>)]
         IN  CopyNested(linked, ks \ {k})
FreshDefaults(h) == CopyNested(DictCopy(h, DefaultId, ConfigId), NestedKeys)

\* The content of the object id with the references followed.
RECURSIVE Content(_, _)
Content(h, id) ==
    IF h[id].kind = "list" THEN h[id]
    ELSE [k \in DOMAIN h[id].items |->
             IF h[id].items[k].ref = <<>> THEN h[id].items[k].val
             ELSE Content(h, h[id].items[k].ref)]

(***************************************************************************)
(* The configuration store as a state machine: the calls of a process on   *)
(* its cache, and the file events of its environment.                      *)
(***************************************************************************)
\* op: the call; work_dir, force: its arguments; io: the system call that
\* failed in it; raised: it raised an exception; ok: it returned (a save:
\* it returned True); read: it read the content of the config file; config:
\* the configuration it returned (a save, a set_setting: the one it wrote).
Call(op, work_dir, force, io, raised, ok, read, config) ==
    [op |-> op, work_dir |-> work_dir, force |-> force, io |-> io,
     raised |-> raised, ok |-> ok, read |-> read, config |-> config]
NoCall == Call("none", None, FALSE, "none", FALSE, FALSE, FALSE, EmptyDict)

Init ==
    /\ now = 0
    /\ file = [w \in WorkDirs |-> NoFile]
    /\ config_cache = EmptyCache
    /\ config_mtime = EmptyMtimes
    /\ ret = NoCall
    /\ prev = NoCall
    /\ marker = FALSE
    /\ phase = Phases[1]
    /\ FIC_GATES_AVAILABLE = TRUE
    /\ hook = NoRun
    /\ sandbox = NoSandboxCall
    /\ loader = NoThreads
    /\ entries = {}
    /\ heap = HeapOfDefaults
    /\ progress = NoProgress
    /\ worker = NoWorkers
    /\ written = <<>>
    /\ named = NoNaming

Load(work_dir, force_reload, io) ==
    LET cache_key == get_config_path(work_dir)
        r == load_config(config_cache, config_mtime, file[cache_key],
                         work_dir, force_reload, io)
    IN  /\ LoadFaultPossible(config_cache, config_mtime, file[cache_key],
                              cache_key, force_reload, io)
        /\ config_cache' = r.cache
        /\ config_mtime' = r.mtimes
        /\ ret' = Call("load", work_dir, force_reload, io, r.raised, ~r.raised, r.read, r.config)
        /\ prev' = ret
        /\ UNCHANGED <<now, file>>
        /\ UNCHANGED <<hookVars, auxVars>>

Save(config, work_dir, io) ==
    LET cache_key == get_config_path(work_dir)
        r == save_config(config_cache, config_mtime, file[cache_key],
                         config, work_dir, io, now)
    IN  /\ file' = [file EXCEPT ![cache_key] = r.file]
        /\ config_cache' = r.cache
        /\ config_mtime' = r.mtimes
        /\ ret' = Call("save", work_dir, FALSE, io, FALSE, r.ok, FALSE, config)
        /\ prev' = NoCall
        /\ UNCHANGED now
        /\ UNCHANGED <<hookVars, auxVars>>

SetSetting(key, value, work_dir, loadIo, saveIo) ==
    LET cache_key == get_config_path(work_dir)
        r == set_setting(config_cache, config_mtime, file[cache_key],
                         key, value, work_dir, loadIo, saveIo, now)
    IN  /\ LoadFaultPossible(config_cache, config_mtime, file[cache_key],
                              cache_key, FALSE, loadIo)
        /\ (r.raised => saveIo = "none")
        /\ file' = [file EXCEPT ![cache_key] = r.file]
        /\ config_cache' = r.cache
        /\ config_mtime' = r.mtimes
        /\ ret' = Call("set_setting", work_dir, FALSE, saveIo, r.raised, r.ok, r.read, r.config)
        /\ prev' = NoCall
        /\ UNCHANGED now
        /\ UNCHANGED <<hookVars, auxVars>>

ClearCache(work_dir) ==
    LET r == clear_config_cache(config_cache, config_mtime, work_dir)
    IN  /\ config_cache' = r.cache
        /\ config_mtime' = r.mtimes
        /\ ret' = Call("clear", work_dir, FALSE, "none", FALSE, TRUE, FALSE, EmptyDict)
        /\ prev' = NoCall
        /\ UNCHANGED <<now, file>>
        /\ UNCHANGED <<hookVars, auxVars>>

\* Another process, or the user, rewrites the config file of w.  (hook
\* describes a run in the present environment: an event that changes the
\* environment forgets it.)
ExternalWrite(w, text) ==
    /\ file' = [file EXCEPT ![w] = FileOf(text, now)]
    /\ ret' = Call("write", w, FALSE, "none", FALSE, TRUE, FALSE, EmptyDict)
    /\ prev' = NoCall
    /\ hook' = NoRun
    /\ UNCHANGED <<now, config_cache, config_mtime, marker, phase, FIC_GATES_AVAILABLE>>
    /\ UNCHANGED auxVars

\* ... or removes it.
ExternalDelete(w) ==
    /\ file[w].kind # "absent"
    /\ file' = [file EXCEPT ![w] = NoFile]
    /\ ret' = Call("delete", w, FALSE, "none", FALSE, TRUE, FALSE, EmptyDict)
    /\ prev' = NoCall
    /\ hook' = NoRun
    /\ UNCHANGED <<now, config_cache, config_mtime, marker, phase, FIC_GATES_AVAILABLE>>
    /\ UNCHANGED auxVars

\* Time passes: a later write gets a later modification time.
Tick ==
    /\ now < MaxClock
    /\ now' = now + 1
    /\ UNCHANGED <<file, config_cache, config_mtime, ret, prev>>
    /\ UNCHANGED <<hookVars, auxVars>>

\* The calls and file events on the working directories dirs.  A call names
\* its working directory or leaves it to the default.
NextOn(dirs) ==
    \/ \E wd \in dirs, force \in BOOLEAN, io \in LoadFaults : Load(wd, force, io)
    \/ \E wd \in dirs, io \in SaveFaults :
          \E c \in SaveArgs \cup {ret.config} :
              /\ (c \in SaveArgs \/ (ret.op = "load" /\ ~ret.raised))
              /\ Save(c, wd, io)
    \/ \E wd \in dirs, kv \in Settings, lio \in LoadFaults, sio \in SaveFaults :
          SetSetting(kv[1], kv[2], wd, lio, sio)
    \/ \E wd \in dirs \cup {None} : ClearCache(wd)
    \/ \E w \in dirs, text \in FileTexts : ExternalWrite(w, text)
    \/ \E w \in dirs : ExternalDelete(w)
    \/ Tick

Next == NextOn({CWD})

Spec == Init /\ [][Next]_vars

(***************************************************************************)
(* The hook as a state machine: runs of the hook on the requests Stdins,   *)
(* in an environment that rewrites the config file, creates and removes    *)
(* the initialization marker and advances the workflow phase.              *)
(***************************************************************************)
\* {"strictness": "relaxed"}
RelaxedOnly == With(EmptyDict, "strictness", Scalar("relaxed"))
\* {"strictness": "strict", "fic_enabled": false}
StrictOff == With(StrictOnly, "fic_enabled", Scalar("false"))

HookFileTexts == {Garbage, NonObject, Obj(StrictOnly), Obj(RelaxedOnly),
                  Obj(RelaxedOff), Obj(StrictOff), Obj(PartialTable)}

\* a   /w/a   /e   l/a (through the link /w/l)   ../e   (empty)   a<LF>
HookPaths == { <<"a">>, <<"/", "w", "/", "a">>, <<"/", "e">>, <<"l", "/", "a">>,
               <<".", ".", "/", "e">>, <<>>, <<"a", LF>> }
ToolInputs == {[isDict |-> TRUE, file_path |-> path] : path \in HookPaths}
                 \cup {[isDict |-> FALSE, file_path |-> <<>>]}
Stdins == {Stdin(kind, "", EmptyInput) : kind \in {"empty", "garbage", "nonobject"}}
             \cup {Stdin("object", tool_name, tool_input) :
                      tool_name \in {"Edit", "Write", "NotebookEdit", "Bash", ""},
                      tool_input \in ToolInputs}

InitHook ==
    /\ now = 0
    /\ file = [w \in WorkDirs |-> NoFile]
    /\ config_cache = EmptyCache
    /\ config_mtime = EmptyMtimes
    /\ ret = NoCall
    /\ prev = NoCall
    /\ marker = FALSE
    /\ phase = Phases[1]
    /\ FIC_GATES_AVAILABLE \in BOOLEAN
    /\ hook = NoRun
    /\ sandbox = NoSandboxCall
    /\ loader = NoThreads
    /\ entries = {}
    /\ heap = HeapOfDefaults
    /\ progress = NoProgress
    /\ worker = NoWorkers
    /\ written = <<>>
    /\ named = NoNaming

\* A run of the hook in the present environment; a fault is one the run
\* comes to.  A run is a process of its own and takes nothing from the run
\* before it: hook records one run of each environment.
HookRun(stdin, fault) ==
    /\ ~hook.ran
    /\ hook' = main(stdin, file[CWD], marker, phase, FIC_GATES_AVAILABLE, fault)
    /\ hook'.fault = fault
    /\ UNCHANGED <<cfgVars, marker, phase, FIC_GATES_AVAILABLE, auxVars>>

\* /init creates the marker; the user may remove it.
SetMarker ==
    /\ marker' = ~marker
    /\ hook' = NoRun
    /\ UNCHANGED <<cfgVars, phase, FIC_GATES_AVAILABLE, auxVars>>

\* The phase tracker advances the workflow.
AdvancePhase ==
    /\ \E i \in 1..(Len(Phases) - 1) : phase = Phases[i] /\ phase' = Phases[i + 1]
    /\ hook' = NoRun
    /\ UNCHANGED <<cfgVars, marker, FIC_GATES_AVAILABLE, auxVars>>

NextHook ==
    \/ \E stdin \in Stdins, fault \in HookFaults : HookRun(stdin, fault)
    \/ \E text \in HookFileTexts : ExternalWrite(CWD, text)
    \/ ExternalDelete(CWD)
    \/ SetMarker
    \/ AdvancePhase

SpecHook == InitHook /\ [][NextHook]_vars

(***************************************************************************)
(* The path sandbox as a state machine: calls of validate_path and         *)
(* safe_join by a process whose current directory is /w, on the filesystem *)
(* of Symlinks and ExistingPaths.                                          *)
(***************************************************************************)
SandboxCwd == << <<"w">> >>

\* a  x  .  /w  /w/a  /we/a  /e  /w/l  l/a  ..  ../e  a/../../e  a..b
\* (empty)  a<LF>  <NUL>  ../<CR>  /e<NUL>  ..a  a../b  a/..b  ..\a  a\..
SandboxPaths ==
    { <<"a">>, <<"x">>, <<".">>, <<"/", "w">>, <<"/", "w", "/", "a">>,
      <<"/", "w", "e", "/", "a">>, <<"/", "e">>, <<"/", "w", "/", "l">>,
      <<"l", "/", "a">>, <<".", ".">>, <<".", ".", "/", "e">>,
      <<"a", "/", ".", ".", "/", ".", ".", "/", "e">>, <<"a", ".", ".", "b">>,
      <<>>, <<"a", LF>>, <<NUL>>, <<".", ".", "/", CR>>, <<"/", "e", NUL>>,
      <<".", ".", "a">>, <<"a", ".", ".", "/", "b">>, <<"a", "/", ".", ".", "b">>,
      <<".", ".", "\\", "a">>, <<"a", "\\", ".", ".">> }

\* No boundary, /w, /we and the relative w.
Boundaries == { <<>>, <<"/", "w">>, <<"/", "w", "e">>, <<".">> }

\* a  ..  ../we  /e  l  a<NUL>  a<LF>
JoinComponents ==
    { <<"a">>, <<".", ".">>, <<".", ".", "/", "w", "e">>, <<"/", "e">>, <<"l">>,
      <<"a", NUL>>, <<"a", LF>> }
JoinArgs == { <<p>> : p \in JoinComponents }
               \cup { <<p, q>> : p \in JoinComponents, q \in JoinComponents }

InitPath ==
    /\ now = 0
    /\ file = [w \in WorkDirs |-> NoFile]
    /\ config_cache = EmptyCache
    /\ config_mtime = EmptyMtimes
    /\ ret = NoCall
    /\ prev = NoCall
    /\ marker = FALSE
    /\ phase = Phases[1]
    /\ FIC_GATES_AVAILABLE = TRUE
    /\ hook = NoRun
    /\ sandbox = NoSandboxCall
    /\ loader = NoThreads
    /\ entries = {}
    /\ heap = HeapOfDefaults
    /\ progress = NoProgress
    /\ worker = NoWorkers
    /\ written = <<>>
    /\ named = NoNaming

ValidatePath(path, work_dir, must_exist, allow_absolute) ==
    /\ sandbox' = SandboxCall("validate_path", path, <<>>, work_dir, must_exist,
                              allow_absolute,
                              validate_path(path, work_dir, must_exist,
                                            allow_absolute, SandboxCwd))
    /\ UNCHANGED <<cfgVars, hookVars, raceVars, heap, progVars>>

SafeJoin(base, paths) ==
    /\ base # <<>>
    /\ sandbox' = SandboxCall("safe_join", <<>>, paths, base, FALSE, TRUE,
                              safe_join(base, paths, SandboxCwd))
    /\ UNCHANGED <<cfgVars, hookVars, raceVars, heap, progVars>>

NextPath ==
    \/ \E path \in SandboxPaths, work_dir \in Boundaries,
          must_exist \in BOOLEAN, allow_absolute \in BOOLEAN :
          ValidatePath(path, work_dir, must_exist, allow_absolute)
    \/ \E base \in Boundaries, paths \in JoinArgs : SafeJoin(base, paths)

SpecPath == InitPath /\ [][NextPath]_vars

(***************************************************************************)
(* Concurrent loads: the threads of one process run load_config on the     *)
(* working directory CWD, a statement at a time, while other processes     *)
(* rewrite the config file.  Every write gives the file a later            *)
(* modification time.                                                      *)
(***************************************************************************)
MaxWrites == 2
RaceTexts == {Obj(StrictOnly), Obj(RelaxedOnly)}

InitRace ==
    /\ now = 0
    /\ file = [w \in WorkDirs |-> NoFile]
    /\ config_cache = EmptyCache
    /\ config_mtime = EmptyMtimes
    /\ ret = NoCall
    /\ prev = NoCall
    /\ marker = FALSE
    /\ phase = Phases[1]
    /\ FIC_GATES_AVAILABLE = TRUE
    /\ hook = NoRun
    /\ sandbox = NoSandboxCall
    /\ loader = NoThreads
    /\ entries = {}
    /\ heap = HeapOfDefaults
    /\ progress = NoProgress
    /\ worker = NoWorkers
    /\ written = <<>>
    /\ named = NoNaming

RaceFrame == UNCHANGED <<ret, prev, hookVars, sandbox, heap, progVars>>
Goto(t, locals) == loader' = [loader EXCEPT ![t] = locals]

\* Thread t calls load_config(CWD, force_reload); line 103: with a cached
\* entry and no force_reload on to the cache check, else lines 117-122.
LoadCall(t, force_reload) ==
    /\ loader[t].pc = "idle"
    /\ IF ~force_reload /\ get_config_path(CWD) \in DOMAIN config_cache
       THEN Goto(t, Locals("106", force_reload, NoTime, EmptyDict, NoTime, NoReturn))
       ELSE Goto(t, Locals("124", force_reload, NoTime, DEFAULT_CONFIG, NoTime, NoReturn))
    /\ UNCHANGED <<now, file, config_cache, config_mtime, entries>>
    /\ RaceFrame

\* Lines 106-107 and 110-112: the file is there and its modification time is
\* read, or it is not and the cached configuration is returned.
Line106(t) ==
    LET cache_key == get_config_path(CWD)
        f == file[cache_key]
    IN  /\ loader[t].pc = "106"
        /\ IF f.kind = "absent"
           THEN Goto(t, Idle(Returned("hit", NoTime, config_cache[cache_key])))
           ELSE Goto(t, [loader[t] EXCEPT !.pc = "108", !.current_mtime = f.mtime])
        /\ UNCHANGED <<now, file, config_cache, config_mtime, entries>>
        /\ RaceFrame

\* Line 108: the modification time read is compared with the recorded one.
Line108(t) ==
    LET cache_key == get_config_path(CWD)
    IN  /\ loader[t].pc = "108"
        /\ IF /\ cache_key \in DOMAIN config_mtime
              /\ loader[t].current_mtime = config_mtime[cache_key]
           THEN Goto(t, [loader[t] EXCEPT !.pc = "109"])
           ELSE Goto(t, [loader[t] EXCEPT !.pc = "124", !.config = DEFAULT_CONFIG])
        /\ UNCHANGED <<now, file, config_cache, config_mtime, entries>>
        /\ RaceFrame

\* Line 109: the cached configuration is returned.
Line109(t) ==
    LET cache_key == get_config_path(CWD)
    IN  /\ loader[t].pc = "109"
        /\ Goto(t, Idle(Returned("hit", loader[t].current_mtime, config_cache[cache_key])))
        /\ UNCHANGED <<now, file, config_cache, config_mtime, entries>>
        /\ RaceFrame

\* Lines 124-133: the file, when it is there, is read and merged into config.
Line124(t) ==
    LET f == file[get_config_path(CWD)]
        built == BuildFreshConfig(f, "none")
    IN  /\ loader[t].pc = "124"
        /\ ~built.raised
        /\ Goto(t, [loader[t] EXCEPT !.pc = IF built.stamped THEN "136" ELSE "141",
                                     !.config = built.config])
        /\ UNCHANGED <<now, file, config_cache, config_mtime, entries>>
        /\ RaceFrame

\* Line 136: the modification time the file has now is recorded.
Line136(t) ==
    LET cache_key == get_config_path(CWD)
    IN  /\ loader[t].pc = "136"
        /\ config_mtime' = Put(config_mtime, cache_key, file[cache_key].mtime)
        /\ Goto(t, [loader[t] EXCEPT !.pc = "141", !.recorded = file[cache_key].mtime])
        /\ UNCHANGED <<now, file, config_cache, entries>>
        /\ RaceFrame

\* Lines 141-143: config is stored in the cache and returned.
Line141(t) ==
    LET cache_key == get_config_path(CWD)
    IN  /\ loader[t].pc = "141"
        /\ config_cache' = Put(config_cache, cache_key, loader[t].config)
        /\ entries' = entries \cup {<<loader[t].recorded, loader[t].config>>}
        /\ Goto(t, Idle(Returned("fresh", loader[t].recorded, loader[t].config)))
        /\ UNCHANGED <<now, file, config_mtime>>
        /\ RaceFrame

\* Another process writes the config file.
RaceWrite(text) ==
    /\ now < MaxWrites
    /\ now' = now + 1
    /\ file' = [file EXCEPT ![CWD] = FileOf(text, now + 1)]
    /\ UNCHANGED <<config_cache, config_mtime, loader, entries>>
    /\ RaceFrame

NextRace ==
    \/ \E t \in Threads, force_reload \in BOOLEAN : LoadCall(t, force_reload)
    \/ \E t \in Threads : Line106(t)
    \/ \E t \in Threads : Line108(t)
    \/ \E t \in Threads : Line109(t)
    \/ \E t \in Threads : Line124(t)
    \/ \E t \in Threads : Line136(t)
    \/ \E t \in Threads : Line141(t)
    \/ \E text \in RaceTexts : RaceWrite(text)

SpecRace == InitRace /\ [][NextRace]_vars

(***************************************************************************)
(* A caller and the objects it is given: it loads the configuration of a   *)
(* working directory without a config file, past the cache, and changes    *)
(* the dict it got - a top-level key, an entry of a nested table, a list   *)
(* inside a nested table.                                                  *)
(***************************************************************************)
MaxListLen == 3
NewScalars == {"x", "y"}

InitAlias ==
    /\ now = 0
    /\ file = [w \in WorkDirs |-> NoFile]
    /\ config_cache = EmptyCache
    /\ config_mtime = EmptyMtimes
    /\ ret = NoCall
    /\ prev = NoCall
    /\ marker = FALSE
    /\ phase = Phases[1]
    /\ FIC_GATES_AVAILABLE = TRUE
    /\ hook = NoRun
    /\ sandbox = NoSandboxCall
    /\ loader = NoThreads
    /\ entries = {}
    /\ heap = HeapOfDefaults
    /\ progress = NoProgress
    /\ worker = NoWorkers
    /\ written = <<>>
    /\ named = NoNaming

AliasFrame ==
    UNCHANGED <<now, file, config_cache, config_mtime, prev, hookVars, sandbox, raceVars,
                progVars>>
Caller(op) == Call(op, CWD, TRUE, "none", FALSE, TRUE, FALSE, EmptyDict)
Holding == ConfigId \in DOMAIN heap

\* config = load_config(CWD, force_reload=True) with no config file: lines
\* 117-122 and 141-143.
LoadDefaults ==
    /\ heap' = FreshDefaults(heap)
    /\ ret' = Caller("load")
    /\ AliasFrame

\* config[key] = value
SetTopLevel(key, value) ==
    /\ Holding
    /\ heap' = [heap EXCEPT ![ConfigId].items[key] = Val(IVal("scalar", value))]
    /\ ret' = Caller("mutate")
    /\ AliasFrame

\* config[key][inner] = value
SetNested(key, inner, value) ==
    /\ Holding
    /\ heap[ConfigId].items[key].ref # <<>>
    /\ heap' = [heap EXCEPT ![heap[ConfigId].items[key].ref].items[inner] =
                                Val(IVal("scalar", value))]
    /\ ret' = Caller("mutate")
    /\ AliasFrame

\* config[key][inner].append(value)
AppendNested(key, inner, value) ==
    /\ Holding
    /\ heap[ConfigId].items[key].ref # <<>>
    /\ LET table == heap[heap[ConfigId].items[key].ref]
       IN  /\ table.items[inner].ref # <<>>
           /\ Len(heap[table.items[inner].ref].items) < MaxListLen
           /\ heap' = [heap EXCEPT ![table.items[inner].ref].items = Append(@, value)]
    /\ ret' = Caller("mutate")
    /\ AliasFrame

NextAlias ==
    \/ LoadDefaults
    \/ \E key \in Keys, value \in NewScalars : SetTopLevel(key, value)
    \/ \E key \in NestedKeys, inner \in InnerKeys, value \in NewScalars :
          SetNested(key, inner, value)
    \/ \E key \in NestedKeys, inner \in InnerKeys, value \in NewScalars :
          AppendNested(key, inner, value)

SpecAlias == InitAlias /\ [][NextAlias]_vars

(***************************************************************************)
(* The progress log as a state machine: the threads (or processes) that    *)
(* share the working directory /w read the progress file, append to it and *)
(* initialize it.  initialize_progress_file tests for the file (line 128)  *)
(* and writes it (line 155) in two steps.                                  *)
(***************************************************************************)
MaxEntries == 2
ProgressCwd == << <<"w">> >>
Messages == {"STARTED: t", "NOTE: n"}

\* The default   /w   w (relative)   /w/a (a file)
ProgressDirs == { NoDir, Dir(<<"/", "w">>), Dir(<<"w">>), Dir(<<"/", "w", "/", "a">>) }

InitProgress ==
    /\ now = 0
    /\ file = [w \in WorkDirs |-> NoFile]
    /\ config_cache = EmptyCache
    /\ config_mtime = EmptyMtimes
    /\ ret = NoCall
    /\ prev = NoCall
    /\ marker = FALSE
    /\ phase = Phases[1]
    /\ FIC_GATES_AVAILABLE = TRUE
    /\ hook = NoRun
    /\ sandbox = NoSandboxCall
    /\ loader = NoThreads
    /\ entries = {}
    /\ heap = HeapOfDefaults
    /\ progress = NoProgress
    /\ worker = NoWorkers
    /\ written = <<>>
    /\ named = NoNaming

ProgressFrame == UNCHANGED <<cfgVars, hookVars, sandbox, raceVars, heap, named>>
Done(t, out) == worker' = [worker EXCEPT ![t] = Working("idle", out)]

\* Thread t calls read_progress(work_dir); io: path.read_text() fails.
ReadProgress(t, work_dir, io) ==
    /\ worker[t].pc = "idle"
    /\ io = "io" => (get_progress_path(work_dir, ProgressCwd).joined /\ progress.exists)
    /\ Done(t, read_progress(progress, work_dir, ProgressCwd, io))
    /\ UNCHANGED <<progress, written>>
    /\ ProgressFrame

\* Thread t calls append_progress(message, work_dir, include_timestamp); io:
\* open(path, 'a') fails.
AppendProgress(t, message, work_dir, include_timestamp, io) ==
    LET r == append_progress(progress, message, work_dir, include_timestamp,
                             ProgressCwd, io)
    IN  /\ worker[t].pc = "idle"
        /\ Len(written) < MaxEntries
        /\ io = "io" => get_progress_path(work_dir, ProgressCwd).joined
        /\ Done(t, r.out)
        /\ progress' = r.file
        /\ written' = IF r.wrote THEN Append(written, r.out.text[1]) ELSE written
        /\ ProgressFrame

\* Thread t calls initialize_progress_file(work_dir=work_dir), lines 124-129:
\* False for a working directory that is not valid and for a file that is
\* there, else on to line 131.
InitializeCall(t, work_dir) ==
    /\ worker[t].pc = "idle"
    /\ IF ~get_progress_path(work_dir, ProgressCwd).joined \/ progress.exists
       THEN Done(t, ProgressOut("returned", "initialize", FALSE, <<>>))
       ELSE worker' = [worker EXCEPT ![t] = Working("131", NoProgressOut)]
    /\ UNCHANGED <<progress, written>>
    /\ ProgressFrame

\* Lines 131-156: path.write_text(content) replaces what the file holds; io:
\* it fails.
InitializeWrite(t, io) ==
    /\ worker[t].pc = "131"
    /\ IF io = "io"
       THEN /\ Done(t, ProgressOut("raised", "initialize", FALSE, <<>>))
            /\ UNCHANGED <<progress, written>>
       ELSE /\ Done(t, ProgressOut("returned", "initialize", TRUE, <<>>))
            /\ progress' = ProgressFile(<<Header>>)
            /\ written' = Append(written, Header)
    /\ ProgressFrame

NextProgress ==
    \/ \E t \in Threads, work_dir \in ProgressDirs, io \in ProgressFaults :
          ReadProgress(t, work_dir, io)
    \/ \E t \in Threads, message \in Messages, work_dir \in ProgressDirs,
          include_timestamp \in BOOLEAN, io \in ProgressFaults :
          AppendProgress(t, message, work_dir, include_timestamp, io)
    \/ \E t \in Threads, work_dir \in ProgressDirs : InitializeCall(t, work_dir)
    \/ \E t \in Threads, io \in ProgressFaults : InitializeWrite(t, io)

SpecProgress == InitProgress /\ [][NextProgress]_vars

(***************************************************************************)
(* sanitize_filename applied to the names FileNames with the lengths       *)
(* MaxLengths.                                                             *)
(***************************************************************************)
MaxNameLength == 8

\* con:fig?.txt  (empty)  a.bcdef  abcdefghij  ab.cd  abcdefgh.ij  ...  a/b\c
\* a<>b  " .a. "  __a__  <NUL>a<LF>  :::  a.b.c  .hidden  "a b<TAB>"  a/../b
\* "abc def.g"  ab_.cd
FileNames ==
    { <<"c", "o", "n", ":", "f", "i", "g", "?", ".", "t", "x", "t">>,
      <<>>,
      <<"a", ".", "b", "c", "d", "e", "f">>,
      <<"a", "b", "c", "d", "e", "f", "g", "h", "i", "j">>,
      <<"a", "b", ".", "c", "d">>,
      <<"a", "b", "c", "d", "e", "f", "g", "h", ".", "i", "j">>,
      <<".", ".", ".">>,
      <<"a", "/", "b", "\\", "c">>,
      <<"a", "<", ">", "b">>,
      <<" ", ".", "a", ".", " ">>,
      <<"_", "_", "a", "_", "_">>,
      <<NUL, "a", LF>>,
      <<":", ":", ":">>,
      <<"a", ".", "b", ".", "c">>,
      <<".", "h", "i", "d", "d", "e", "n">>,
      <<"a", " ", "b", TAB>>,
      <<"a", "/", ".", ".", "/", "b">>,
      <<"a", "b", "c", " ", "d", "e", "f", ".", "g">>,
      <<"a", "b", "_", ".", "c", "d">> }
MaxLengths == 0..MaxNameLength \cup {255}

InitName ==
    /\ now = 0
    /\ file = [w \in WorkDirs |-> NoFile]
    /\ config_cache = EmptyCache
    /\ config_mtime = EmptyMtimes
    /\ ret = NoCall
    /\ prev = NoCall
    /\ marker = FALSE
    /\ phase = Phases[1]
    /\ FIC_GATES_AVAILABLE = TRUE
    /\ hook = NoRun
    /\ sandbox = NoSandboxCall
    /\ loader = NoThreads
    /\ entries = {}
    /\ heap = HeapOfDefaults
    /\ progress = NoProgress
    /\ worker = NoWorkers
    /\ written = <<>>
    /\ named = NoNaming

SanitizeFilename(filename, max_length) ==
    /\ named' = Naming(TRUE, filename, max_length,
                       sanitize_filename(filename, max_length))
    /\ UNCHANGED <<cfgVars, hookVars, sandbox, raceVars, heap, progress, worker, written>>

NextName ==
    \E filename \in FileNames, max_length \in MaxLengths :
        SanitizeFilename(filename, max_length)

SpecName == InitName /\ [][NextName]_vars

(***************************************************************************)
(* The store of a process that works on two directories: each call names   *)
(* its working directory or leaves it to the default, which is w1.         *)
(***************************************************************************)
DirArgs == WorkDirs \cup {None}

InitDirs ==
    /\ now = 0
    /\ file = [w \in WorkDirs |-> NoFile]
    /\ config_cache = EmptyCache
    /\ config_mtime = EmptyMtimes
    /\ ret = NoCall
    /\ prev = NoCall
    /\ marker = FALSE
    /\ phase = Phases[1]
    /\ FIC_GATES_AVAILABLE = TRUE
    /\ hook = NoRun
    /\ sandbox = NoSandboxCall
    /\ loader = NoThreads
    /\ entries = {}
    /\ heap = HeapOfDefaults
    /\ progress = NoProgress
    /\ worker = NoWorkers
    /\ written = <<>>
    /\ named = NoNaming

NextDirs ==
    \/ \E wd \in DirArgs, force \in BOOLEAN : Load(wd, force, "none")
    \/ \E wd \in DirArgs, io \in {"none", "open"} : Save(StrictOnly, wd, io)
    \/ \E wd \in DirArgs, kv \in Settings : SetSetting(kv[1], kv[2], wd, "none", "none")
    \/ \E wd \in DirArgs : ClearCache(wd)
    \/ \E w \in WorkDirs : ExternalWrite(w, Obj(RelaxedOnly))

SpecDirs == InitDirs /\ [][NextDirs]_vars

(***************************************************************************)
(* The store with a record of the versions of the config file of CWD:      *)
(* entries holds, for every version that held a JSON object, its           *)
(* modification time and the configuration merged from it.                 *)
(***************************************************************************)
Versions(f) ==
    IF f.kind = "object"
    THEN {<<f.mtime, MergeUserConfig(DEFAULT_CONFIG, f.obj)>>}
    ELSE {}
VersionTexts == {Garbage, Obj(StrictOnly), Obj(RelaxedOnly)}
VersionFrame == UNCHANGED <<hookVars, sandbox, loader, heap, progVars>>

InitVersions ==
    /\ now = 0
    /\ file = [w \in WorkDirs |-> NoFile]
    /\ config_cache = EmptyCache
    /\ config_mtime = EmptyMtimes
    /\ ret = NoCall
    /\ prev = NoCall
    /\ marker = FALSE
    /\ phase = Phases[1]
    /\ FIC_GATES_AVAILABLE = TRUE
    /\ hook = NoRun
    /\ sandbox = NoSandboxCall
    /\ loader = NoThreads
    /\ entries = {}
    /\ heap = HeapOfDefaults
    /\ progress = NoProgress
    /\ worker = NoWorkers
    /\ written = <<>>
    /\ named = NoNaming

\* Another process, or the user, writes the config file of CWD.
WriteVersion(text) ==
    /\ file' = [file EXCEPT ![CWD] = FileOf(text, now)]
    /\ entries' = entries \cup Versions(FileOf(text, now))
    /\ ret' = Call("write", CWD, FALSE, "none", FALSE, TRUE, FALSE, EmptyDict)
    /\ prev' = NoCall
    /\ UNCHANGED <<now, config_cache, config_mtime>>
    /\ VersionFrame

\* save_config(config, CWD).
SaveVersion(config, io) ==
    LET r == save_config(config_cache, config_mtime, file[CWD], config, CWD, io, now)
    IN  /\ file' = [file EXCEPT ![CWD] = r.file]
        /\ entries' = entries \cup Versions(r.file)
        /\ config_cache' = r.cache
        /\ config_mtime' = r.mtimes
        /\ ret' = Call("save", CWD, FALSE, io, FALSE, r.ok, FALSE, config)
        /\ prev' = NoCall
        /\ UNCHANGED now
        /\ VersionFrame

NextVersions ==
    \/ \E force \in BOOLEAN : Load(CWD, force, "none")
    \/ \E io \in SaveFaults : SaveVersion(PartialTable, io)
    \/ \E wd \in {CWD, None} : ClearCache(wd)
    \/ \E text \in VersionTexts : WriteVersion(text)
    \/ ExternalDelete(CWD)
    \/ Tick

SpecVersions == InitVersions /\ [][NextVersions]_vars

(***************************************************************************)
(* Properties of the configuration store.                                  *)
(***************************************************************************)
\* ret is a load_config call in which no system call failed.
IsLoad == ret.op = "load" /\ ret.io = "none"
\* ... and it directly follows the call or file event prev on the same file.
LoadAfter(op) ==
    /\ IsLoad
    /\ prev.op = op
    /\ get_config_path(prev.work_dir) = get_config_path(ret.work_dir)
\* The config file that the load ret found.
LoadedFile == file[get_config_path(ret.work_dir)]

\* C1: every load returns, without failing, a configuration that contains
\* every default key, whatever the config file holds.
C1_LoadReturnsAllDefaultKeys ==
    ret.op = "load" => (~ret.raised /\ DefaultKeys \subseteq KeysOf(ret.config))

\* C2: the second of two consecutive loads without forceReload, with no change
\* of the file in between, returns a configuration equal to the first one's
\* and does not read the file's content again.
C2_LoadIdempotentNoReread ==
    (LoadAfter("load") /\ ~ret.force /\ prev.io = "none" /\ ~prev.raised)
        => (~ret.raised /\ ret.config = prev.config /\ ~ret.read)

\* What a load returns for the top-level key k of a written configuration c:
\* c's value as JSON gives it back, and for a table over a default table the
\* default entries overlaid by c's.
ReadBack(c, k, loaded) ==
    IF c[k].kind = "dict" /\ DEFAULT_CONFIG[k].kind = "dict"
    THEN /\ loaded[k].kind = "dict"
         /\ \A i \in InnerKeys :
               loaded[k].d[i] = IF c[k].d[i].kind # "absent"
                                THEN ToJsonInner(c[k].d[i])
                                ELSE DEFAULT_CONFIG[k].d[i]
    ELSE loaded[k] = ToJson(c[k])

\* C3: when save returns success the cache entry of that working directory is
\* gone, and the next load without forceReload reads the file and returns the
\* configuration just saved, not a cached one.
C3_SaveInvalidatesCache ==
    /\ (ret.op \in {"save", "set_setting"} /\ ret.ok)
          => /\ get_config_path(ret.work_dir) \notin DOMAIN config_cache
             /\ get_config_path(ret.work_dir) \notin DOMAIN config_mtime
    /\ \A op \in {"save", "set_setting"} :
          (LoadAfter(op) /\ prev.ok /\ ~ret.force)
             => /\ ret.read /\ ~ret.raised
                /\ \A k \in KeysOf(prev.config) : ReadBack(prev.config, k, ret.config)
                /\ \A k \in Keys \ KeysOf(prev.config) : ret.config[k] = DEFAULT_CONFIG[k]

\* A load without forceReload right after a successful save of a
\* configuration other than the defaults.
C3_Witness ==
    /\ LoadAfter("save") /\ prev.ok /\ ~ret.force
    /\ ret.read /\ ret.config # DEFAULT_CONFIG

C5_MergeResult ==
    (ret.op = "load" /\ ret.read /\ LoadedFile.kind = "object")
        => /\ ~ret.raised
           /\ \A k \in Keys :
                LET u == LoadedFile.obj[k]
                    d == DEFAULT_CONFIG[k]
                    r == ret.config[k]
                IN  /\ (u.kind \notin {"absent", "dict"}) => r = u
                    /\ (u.kind = "dict" /\ d.kind = "dict")
                          => /\ r.kind = "dict"
                             /\ \A i \in InnerKeysOf(u) : r.d[i] = u.d[i]
                             /\ \A i \in InnerKeys \ InnerKeysOf(u) : r.d[i] = d.d[i]
                    /\ (u.kind # "absent" /\ k \notin DefaultKeys) => r = u
                    /\ (u.kind = "absent") => r = d
           /\ LoadedFile.obj = StrictOnly
                 => /\ ret.config["strictness"] = Scalar("strict")
                    /\ ret.config["fic_enabled"] = Scalar("true")

\* A fresh load of a file that overrides one entry of a default table, adds
\* another and sets a key that is no default key.
C5_Witness ==
    /\ ret.op = "load" /\ ret.read /\ LoadedFile.kind = "object"
    /\ LoadedFile.obj = PartialTable
    /\ ret.config["fic_config"].d["max_open_questions"] = IVal("scalar", "5")
    /\ ret.config["user_key"] = Scalar("u")

\* A step that is a call of load_config: ret' is the call.
LoadStep == ret'.op = "load" /\ now' = now
\* The defaults merged with what the file f holds: the defaults themselves
\* for a file that is not there or holds no JSON.
Rebuilt(f) ==
    IF f.kind = "object" THEN MergeUserConfig(DEFAULT_CONFIG, f.obj) ELSE DEFAULT_CONFIG
\* The cache holds a configuration for key, and the file is there with a
\* modification time other than the recorded one.
ChangedSince(key) ==
    /\ key \in DOMAIN config_cache
    /\ file[key].kind # "absent"
    /\ (key \notin DOMAIN config_mtime \/ config_mtime[key] # file[key].mtime)

\* C24: a load that returns, issued with force_reload or when the file's
\* modification time differs from the recorded one, returns the defaults
\* merged with what the file holds now, having read the file, and leaves that
\* configuration as the cache entry; a load without force_reload whose file
\* is gone, or whose stat of the cache check fails, returns the cached
\* configuration and leaves the cache as it is.
C24_Freshness ==
    [][LoadStep =>
          LET key == get_config_path(ret'.work_dir)
          IN  /\ (ret'.io = "none" /\ ~ret'.raised /\ (ret'.force \/ ChangedSince(key)))
                    => /\ ret'.config = Rebuilt(file[key])
                       /\ file[key].kind # "absent" => ret'.read
                       /\ key \in DOMAIN config_cache'
                       /\ config_cache'[key] = ret'.config
              /\ (/\ ~ret'.force
                  /\ key \in DOMAIN config_cache
                  /\ (file[key].kind = "absent" \/ ret'.io = "stat_check"))
                    => /\ ~ret'.raised /\ ~ret'.read
                       /\ ret'.config = config_cache[key]
                       /\ config_cache' = config_cache
                       /\ config_mtime' = config_mtime]_vars

\* A forced load right after a load that cached the configuration of the
\* same file: the file is read again.
C24_Witness ==
    /\ LoadAfter("load") /\ ret.force /\ ~prev.force
    /\ prev.io = "none" /\ ~prev.raised
    /\ ret.read /\ ~ret.raised
    /\ LoadedFile.kind = "object"
    /\ ret.config = MergeUserConfig(DEFAULT_CONFIG, LoadedFile.obj)

\* What load_config(w) returns when it is called now, without force_reload.
LoadNow(w) == load_config(config_cache, config_mtime, file[w], w, FALSE, "none")

\* C28: when set_setting returns False because the save failed, and the file
\* is as it was, a later load (no forced reload) returns what a load before
\* the call would have returned: the value that was not saved is not seen.
C28_FailedWriteLeavesState ==
    [][(/\ ret'.op = "set_setting" /\ now' = now
        /\ ~ret'.raised /\ ~ret'.ok
        /\ file' = file)
          => \A w \in WorkDirs :
                w = get_config_path(ret'.work_dir)
                    => LoadNow(w)'.config = LoadNow(w).config]_vars

\* The cache entry of the key k: the configuration and the recorded
\* modification time, where there is one.
CacheEntry(k) ==
    <<k \in DOMAIN config_cache,
      IF k \in DOMAIN config_cache THEN config_cache[k] ELSE EmptyDict,
      k \in DOMAIN config_mtime,
      IF k \in DOMAIN config_mtime THEN config_mtime[k] ELSE NoTime>>

\* C23: a load, a save, a set_setting and a clear_config_cache with a working
\* directory, named or left to the default, leave the cache entry of every
\* other working directory as it is; only clear_config_cache without a
\* working directory removes every entry.
C23_CacheIsolation ==
    [][(/\ ret'.op \in {"load", "save", "set_setting", "clear"} /\ now' = now
        /\ ~(ret'.op = "clear" /\ ret'.work_dir = None))
          => \A k \in WorkDirs \ {get_config_path(ret'.work_dir)} :
                CacheEntry(k)' = CacheEntry(k)]_vars

\* C29: after every completed call, a key with a recorded modification time
\* has a cached configuration, and that configuration is the one merged from
\* a version of the file that had this modification time.
C29_CacheCoherent ==
    \A k \in DOMAIN config_mtime :
        /\ k \in DOMAIN config_cache
        /\ <<config_mtime[k], config_cache[k]>> \in entries

(***************************************************************************)
(* Properties of the hook.  They are stated of the environment the run     *)
(* saw: the config file as written, the marker, the phase.                 *)
(***************************************************************************)
\* The hook ran; and it ran without a fault in the calls it made.
HookEnded == hook.ran
HookRan == HookEnded /\ hook.fault = "none"
Out == hook.stdout[1]
NoResponseFields == Response("none", <<>>)

\* The config file of the hook's working directory holds something load_config
\* returns a configuration for.
ConfigReadable == file[CWD].kind # "nonobject"
\* The strictness mode the config file sets; standard is the default.
ConfiguredMode ==
    IF file[CWD].kind = "object" /\ file[CWD].obj["strictness"].kind # "absent"
    THEN file[CWD].obj["strictness"].s
    ELSE "standard"
\* The config file sets fic_enabled to false.
GatesDisabled ==
    file[CWD].kind = "object" /\ file[CWD].obj["fic_enabled"] = Scalar("false")

\* The request is a guarded action (Edit, Write) with a tool_input object.
Guarded ==
    /\ hook.stdin.kind = "object"
    /\ hook.stdin.tool_name \in {"Edit", "Write"}
    /\ hook.stdin.tool_input.isDict
\* The target path passes the path sandbox with the working directory as
\* the boundary.
PathOK ==
    validate_path(hook.stdin.tool_input.file_path, DirPath(CWD), FALSE, TRUE, <<>>).valid
\* The gates are in force: marker present, gate module imported, fic_enabled.
GatesOn == marker /\ FIC_GATES_AVAILABLE /\ ConfigReadable /\ ~GatesDisabled

\* C6: for an initialized project with the gates enabled, a valid path inside
\* the boundary and a guarded action the phase does not permit, the hook
\* answers with an empty response in relaxed mode, with a systemMessage and no
\* deny in standard mode, and with a deny decision in strict mode.
C6_ModeMonotonicity ==
    (HookRan /\ GatesOn /\ Guarded /\ PathOK /\ ~PhasePermits("allow_edit", phase))
        => /\ ConfiguredMode = "relaxed" => hook.stdout = <<NoResponseFields>>
           /\ ConfiguredMode = "standard"
                 => /\ hook.action = "warn"
                    /\ Out.permissionDecision = "none"
                    /\ Out.systemMessage = <<"plan-missing">>
           /\ ConfiguredMode = "strict"
                 => /\ hook.action = "block"
                    /\ Out.permissionDecision = "deny"
                    /\ Out.systemMessage = <<"plan-missing", BlockedNote>>

\* An edit of a valid path before the plan exists, warned in standard mode.
C6_Witness ==
    /\ HookRan /\ GatesOn /\ Guarded /\ PathOK /\ ~PhasePermits("allow_edit", phase)
    /\ ConfiguredMode = "standard"
    /\ hook.action = "warn"
    /\ Out = Response("none", <<"plan-missing">>)

C9_UninitializedAllowsAll ==
    (HookRan /\ ~marker /\ hook.stdin.kind # "nonobject")
        => /\ hook.stdout = <<NoResponseFields>>
           /\ hook.loads = 0
           /\ hook.gate_calls = 0

\* No marker: an edit outside the boundary under a strict config file, and a
\* config file that does not hold an object, both answered with {}.
C9_Witness ==
    /\ HookRan /\ ~marker /\ Guarded /\ ~PathOK
    /\ (ConfiguredMode = "strict" \/ ~ConfigReadable)
    /\ ~PhasePermits("allow_edit", phase)
    /\ hook.stdout = <<NoResponseFields>>

\* C10: with fic_enabled false or in relaxed mode the hook allows every tool,
\* path and phase, and check_gate is not called: neither path validation nor
\* the phase check takes place.
C10_FastPath ==
    (HookRan /\ ConfigReadable /\ (GatesDisabled \/ ConfiguredMode = "relaxed"))
        => /\ Out.permissionDecision = "none"
           /\ hook.action \in {"none", "allow"}
           /\ hook.gate_calls = 0
           /\ ~hook.verdict.validated /\ ~hook.verdict.phase_checked
           /\ hook.stdin.kind # "nonobject" => hook.stdout = <<NoResponseFields>>

\* Gates disabled under strict mode: an edit of a path outside the boundary,
\* before any plan exists, is allowed unchecked.
C10_Witness ==
    /\ HookRan /\ marker /\ FIC_GATES_AVAILABLE /\ GatesDisabled
    /\ ConfiguredMode = "strict"
    /\ Guarded /\ ~PathOK /\ ~PhasePermits("allow_edit", phase)
    /\ hook.stdout = <<NoResponseFields>>

\* C11: every run of the hook - no input, unparsable input, no marker,
\* relaxed mode, an allow, a warn, a block, an exception in any of its calls -
\* writes exactly one response to standard output and ends with status 0.
C11_ExactlyOneResponse ==
    HookEnded => (Len(hook.stdout) = 1 /\ hook.exit = 0)

\* A run whose input is JSON but no object: line 111 raises, the handler
\* prints the one response.
C11_Witness ==
    /\ HookEnded /\ hook.raised /\ hook.fault = "none"
    /\ hook.stdin.kind = "nonobject"
    /\ marker
    /\ hook.stdout = <<Response("none", <<HookError>>)>>

\* C12: the response carries the deny decision exactly when the verdict of the
\* gate is block; a warn verdict gives a systemMessage with the rationale of
\* the gate and no deny; an allow verdict, or no gate check at all, gives
\* neither a deny nor a message of the gate.
C12_VerdictToResponse ==
    (HookRan /\ Len(hook.stdout) = 1)
        => /\ (Out.permissionDecision = "deny") <=> (hook.verdict.action = "block")
           /\ hook.verdict.action = "block"
                 => Out.systemMessage = <<hook.verdict.reason, BlockedNote>>
           /\ hook.verdict.action = "warn"
                 => Out = Response("none", <<hook.verdict.reason>>)
           /\ hook.verdict.action \in {"allow", "none"}
                 => /\ Out.permissionDecision = "none"
                    /\ ~hook.raised => Out = NoResponseFields

\* A write before the plan exists, blocked in strict mode: deny, with the
\* rationale of the gate.
C12_Witness ==
    /\ HookRan /\ GatesOn /\ PathOK
    /\ hook.stdin.tool_name = "Write"
    /\ ConfiguredMode = "strict"
    /\ hook.verdict = Verdict("block", "plan-missing", TRUE, TRUE)
    /\ Out = Response("deny", <<"plan-missing", BlockedNote>>)

\* C13: a tool that is no recognized file modification (Edit, Write) is never
\* checked against a gate, and is never warned about or blocked, in every
\* mode, phase and for every target path.
C13_UnknownKindAllowed ==
    (HookRan /\ Len(hook.stdout) = 1
       /\ hook.stdin.kind = "object" /\ hook.stdin.tool_name \notin {"Edit", "Write"})
        => /\ hook.action \notin {"warn", "block"}
           /\ hook.gate_calls = 0
           /\ Out.permissionDecision = "none"
           /\ ~hook.raised => Out = NoResponseFields

\* Strict mode, no plan yet, gates on: NotebookEdit of a path outside the
\* working directory is answered with {}.
C13_Witness ==
    /\ HookRan /\ GatesOn /\ ~PathOK /\ ~PhasePermits("allow_write", phase)
    /\ ConfiguredMode = "strict"
    /\ hook.stdin.kind = "object" /\ hook.stdin.tool_name = "NotebookEdit"
    /\ hook.stdin.tool_input.isDict
    /\ hook.stdout = <<NoResponseFields>>

\* C14: an exception raised in a call of the evaluation (config loading, mode
\* lookup, gate check, message formatting, or any call before them) ends in
\* one response that holds the error as systemMessage and no deny decision,
\* and in exit status 0.
C14_FaultBecomesAllow ==
    (HookEnded /\ hook.raised)
        => /\ hook.stdout = <<Response("none", <<HookError>>)>>
           /\ hook.exit = 0

\* Strict mode, the gate blocks, format_gate_message raises: the response is
\* the error message, without deny.
C14_Witness ==
    /\ HookEnded /\ hook.raised /\ hook.fault = "format"
    /\ ConfiguredMode = "strict"
    /\ hook.verdict.action = "block"
    /\ hook.stdout = <<Response("none", <<HookError>>)>>

(***************************************************************************)
(* Properties of the path sandbox.                                         *)
(***************************************************************************)
IsValidate == sandbox.op = "validate_path"
IsJoin == sandbox.op = "safe_join"
\* The canonical form of the boundary (of the base) of the call.
BoundaryOf == Resolve(sandbox.work_dir, SandboxCwd)
\* The path p is the directory base or lies below it, segment by segment.
IsWithin(base, p) == Len(p) >= Len(base) /\ SubSeq(p, 1, Len(base)) = base
\* Where the candidate of a validate_path call with a boundary leads.
CandidateOf == Resolve(sandbox.path, BoundaryOf)
ResolvesOutside ==
    /\ IsValidate /\ sandbox.work_dir # <<>> /\ sandbox.path # <<>>
    /\ ~IsWithin(BoundaryOf, CandidateOf)

\* C15: a path that holds a NUL, CR or LF is invalid with the
\* dangerous-character reason, whatever the boundary, mustExist and
\* allowAbsolute are and whatever else the path holds.
C15_DangerousCharFirst ==
    (IsValidate /\ Chars(sandbox.path) \cap {NUL, CR, LF} # {})
        => sandbox.result = Invalid("dangerous-character")

\* An absolute path outside the boundary that does not exist, with a NUL,
\* absolute paths disallowed and existence required.
C15_Witness ==
    /\ IsValidate
    /\ sandbox.path = <<"/", "e", NUL>>
    /\ sandbox.work_dir = <<"/", "w">>
    /\ sandbox.must_exist /\ ~sandbox.allow_absolute
    /\ sandbox.result.reason = "dangerous-character"

\* C16 as claimed: a candidate that resolves outside the boundary is invalid
\* with the escapes-boundary reason.
C16_OutsideIsEscapes ==
    ResolvesOutside => sandbox.result = Invalid("escapes-boundary")

\* C16 amended: a candidate that resolves outside the boundary is invalid; the
\* reason is that of the first check it fails - dangerous-character,
\* traversal-pattern for a path with ".." at its start or next to a
\* separator, absolute-path-disallowed - and escapes-boundary when it passes
\* these.
C16_OutsideIsInvalid ==
    ResolvesOutside
        => /\ ~sandbox.result.valid
           /\ sandbox.result.reason =
                 IF Chars(sandbox.path) \cap {NUL, CR, LF} # {}
                 THEN "dangerous-character"
                 ELSE IF \/ PatternDotsSlash(sandbox.path)
                         \/ PatternSlashDots(sandbox.path)
                         \/ PatternLeadingDots(sandbox.path)
                 THEN "traversal-pattern"
                 ELSE IF IsAbs(sandbox.path) /\ ~sandbox.allow_absolute
                 THEN "absolute-path-disallowed"
                 ELSE "escapes-boundary"

\* The boundary /w and a candidate that climbs out of it with "..": invalid,
\* for the traversal pattern.
C16_Witness ==
    /\ ResolvesOutside
    /\ sandbox.work_dir = <<"/", "w">>
    /\ sandbox.path = <<"a", "/", ".", ".", "/", ".", ".", "/", "e">>
    /\ sandbox.result = Invalid("traversal-pattern")

\* C17: a path that validate_path with a boundary, or safe_join, returns is
\* absolute, canonical, and the boundary (the base) itself or below it segment
\* by segment; safe_join returns no path when a component holds a NUL.
C17_Containment ==
    /\ (IsValidate /\ sandbox.work_dir # <<>> /\ sandbox.result.valid)
          => /\ sandbox.result.resolved.absolute
             /\ IsWithin(BoundaryOf, sandbox.result.resolved.parts)
             /\ \A i \in 1..Len(sandbox.result.resolved.parts) :
                   sandbox.result.resolved.parts[i] # <<".", ".">>
    /\ (IsJoin /\ sandbox.result.joined)
          => /\ IsWithin(BoundaryOf, sandbox.result.parts)
             /\ \A i \in 1..Len(sandbox.result.parts) :
                   sandbox.result.parts[i] # <<".", ".">>
    /\ (IsJoin /\ \E i \in 1..Len(sandbox.paths) : NUL \in Chars(sandbox.paths[i]))
          => ~sandbox.result.joined

\* safe_join("/w", "a", "..") returns the base itself.
C17_Witness ==
    /\ IsJoin
    /\ sandbox.work_dir = <<"/", "w">>
    /\ sandbox.paths = << <<"a">>, <<".", ".">> >>
    /\ sandbox.result = [joined |-> TRUE, parts |-> << <<"w">> >>]

\* The path holds a segment that is "..": two dots with a separator or an
\* end of the string on either side.
HasDotDotSegment(path) ==
    \E i \in 1..(Len(path) - 1) :
        /\ path[i] = "." /\ path[i + 1] = "."
        /\ (i = 1 \/ IsSlash(path[i - 1]))
        /\ (i + 1 = Len(path) \/ IsSlash(path[i + 2]))

\* C25 as claimed: a path (without NUL, CR, LF) is rejected for the traversal
\* pattern exactly when it holds a ".." segment, with / or \ as the separator;
\* a name that only begins or ends with two dots is not rejected as traversal.
C25_TraversalIffSegment ==
    (IsValidate /\ ~HasDangerousChar(sandbox.path))
        => ((sandbox.result = Invalid("traversal-pattern"))
               <=> HasDotDotSegment(sandbox.path))

\* C25 amended: a path (without NUL, CR, LF) is rejected for the traversal
\* pattern exactly when it holds two dots that stand at its start or next to
\* a separator (/ or \) on either side.  Every path with a ".." segment is
\* among them, and so is a name that begins with two dots (..a) and a segment
\* that begins or ends with two dots beside a separator (a/..b, a../b).
C25_TraversalIffDotsAtBoundary ==
    (IsValidate /\ ~HasDangerousChar(sandbox.path))
        => /\ (sandbox.result = Invalid("traversal-pattern"))
                 <=> \E i \in 1..(Len(sandbox.path) - 1) :
                        /\ sandbox.path[i] = "." /\ sandbox.path[i + 1] = "."
                        /\ \/ i = 1
                           \/ IsSlash(sandbox.path[i - 1])
                           \/ (i + 2 <= Len(sandbox.path) /\ IsSlash(sandbox.path[i + 2]))
           /\ HasDotDotSegment(sandbox.path)
                 => sandbox.result = Invalid("traversal-pattern")

\* The file name ..a, which holds no ".." segment, is rejected for the
\* traversal pattern.
C25_Witness ==
    /\ IsValidate
    /\ sandbox.path = <<".", ".", "a">>
    /\ ~HasDotDotSegment(sandbox.path)
    /\ sandbox.result = Invalid("traversal-pattern")

\* C26: a result is valid with a resolved absolute path and no reason, or
\* invalid with a reason and no path; a valid result carries an absolute path
\* with and without a boundary, for a relative and for an absolute input.
C26_WellFormedResult ==
    IsValidate
        => /\ sandbox.result.valid
                 => /\ sandbox.result.reason = "none"
                    /\ sandbox.result.resolved.absolute
           /\ ~sandbox.result.valid
                 => /\ sandbox.result.reason # "none"
                    /\ sandbox.result.resolved = NoPath

(***************************************************************************)
(* Properties of concurrent loads.                                         *)
(***************************************************************************)
AllIdle == \A t \in Threads : loader[t].pc = "idle"
\* What load_config(CWD) returns when it runs now, alone.
LaterLoad ==
    load_config(config_cache, config_mtime, file[CWD], CWD, FALSE, "none").config
\* The configuration merged from the content the file has now.
MergedFromFile == BuildFreshConfig(file[CWD], "none").config

\* C18: when no load is in flight and the file is not written again, a load
\* without forceReload returns the configuration merged from the content the
\* file has: no superseded configuration stays in the cache.
C18_EventuallyConsistent ==
    AllIdle => LaterLoad = MergedFromFile

\* C19: a load that returns the cached configuration because the recorded
\* modification time equals the file's returns a configuration that a load
\* cached together with that modification time.
C19_EntryUpdateAtomic ==
    \A t \in Threads :
        (loader[t].out.kind = "hit" /\ loader[t].out.mtime # NoTime)
            => <<loader[t].out.mtime, loader[t].out.config>> \in entries

(***************************************************************************)
(* Properties of the objects a caller is given.                            *)
(***************************************************************************)
\* C20: whatever a caller changes in a configuration it got from load - a
\* top-level key, an entry of a nested table, a list inside one - the built-in
\* defaults stay as they were, and a defaults-only load returns them.
C20_DefaultsNeverCorrupted ==
    /\ Content(heap, DefaultId) = Content(HeapOfDefaults, DefaultId)
    /\ ret.op = "load" => Content(heap, ConfigId) = Content(HeapOfDefaults, DefaultId)

(***************************************************************************)
(* Properties of the progress log.                                         *)
(***************************************************************************)
\* C21: an I/O failure is never passed on to the caller as an exception: a
\* load whose open of the config file fails returns the defaults, a save
\* whose open or write fails returns False, and a read, an append or an
\* initialization of the progress file whose file operation fails returns.
C21_NoFaultPropagates ==
    /\ (ret.op = "load" /\ ret.io = "open")
          => (~ret.raised /\ ret.config = DEFAULT_CONFIG)
    /\ (ret.op = "save" /\ ret.io # "none") => (~ret.raised /\ ~ret.ok)
    /\ \A t \in Threads : worker[t].out.kind # "raised"

\* C27: every entry written to the progress file stays in it, in the order
\* of writing, whatever the interleaving of appends and initializations; an
\* initialization writes only a file that is not there.
C27_AppendOnly ==
    \A i \in 1..Len(written) :
        i <= Len(progress.entries) /\ progress.entries[i] = written[i]

(***************************************************************************)
(* Properties of sanitize_filename.                                        *)
(***************************************************************************)
\* C22: for every name and every max_length >= 0 the result is not empty, at
\* most max_length long, holds no NUL, CR, LF, no / or \, none of <>:"|?*,
\* no two underscores in a row, and neither starts nor ends with a dot, a
\* space or a tab; "con:fig?.txt" gives "con_fig_.txt".
C22_SanitizedName ==
    named.called
        => /\ named.result # <<>>
           /\ Len(named.result) <= named.max_length
           /\ Chars(named.result)
                 \cap (DANGEROUS_PATH_CHARS \cup {"/", "\\"} \cup IllegalChars) = {}
           /\ \A i \in 1..(Len(named.result) - 1) :
                 ~(named.result[i] = "_" /\ named.result[i + 1] = "_")
           /\ named.result[1] \notin {".", " ", TAB}
           /\ named.result[Len(named.result)] \notin {".", " ", TAB}
           /\ (/\ named.filename = <<"c", "o", "n", ":", "f", "i", "g", "?", ".", "t", "x", "t">>
               /\ named.max_length = 255)
                 => named.result = <<"c", "o", "n", "_", "f", "i", "g", "_", ".", "t", "x", "t">>
=============================================================================
